---- MODULE Spec2Model ----
(***************************************************************************)
(* Content-moderation DAO: GovernanceToken (token ledger with locks),      *)
(* ReputationSystem (reputation ledger) and ContentModerationDAO           *)
(* (proposal lifecycle), modelled as one state machine.                    *)
(*                                                                         *)
(* Every public function of the three contracts is one action.  A call     *)
(* that reverts changes nothing (the EVM rolls the whole transaction       *)
(* back), so it is no step of the machine: the revert reason of a call in  *)
(* a state is the value of the function's ...Error operator there ("ok"    *)
(* when the call goes through), and an action is enabled exactly when its  *)
(* ...Error operator is "ok".                                              *)
(*                                                                         *)
(* Scaling.  TLC integers are 32 bit, so the token amounts are scaled:     *)
(* one token is UNIT = 10 minor units instead of 10**18, the initial       *)
(* supply is 8 tokens instead of 100 million, the supply cap 9 tokens      *)
(* instead of 1 billion and the proposal threshold 4 tokens instead of     *)
(* 1000.  Time is counted in half voting periods (VOTING_PERIOD = 2 ticks  *)
(* stands for 7 days).  The percentages and the reputation constants are   *)
(* the source's.  The strings of a proposal (title, description,           *)
(* contentUrl, contentType) are opaque to every operation and are left     *)
(* out; ERC20 allowances are left out (transferFrom moves tokens through   *)
(* the same _update hook as transfer).                                     *)
(*                                                                         *)
(* The React front end (src/App.tsx and its components) keeps a store of   *)
(* its own, which never reads or writes the contracts' state; it is the    *)
(* variable ui, and SpecUi is its state machine.                           *)
(***************************************************************************)
EXTENDS Integers, Sequences, FiniteSets, Bags, TLC

VARIABLES
    balances,       \* ERC20 _balances of GovernanceToken
    totalSupply,    \* ERC20 _totalSupply of GovernanceToken
    lockedTokens,   \* GovernanceToken.lockedTokens
    reputations,    \* ReputationSystem.reputations
    proposals,      \* ContentModerationDAO.proposals (storage mapping)
    proposalCount,  \* ContentModerationDAO.proposalCount
    now,            \* block.timestamp
    last,           \* the last successful call: function and arguments
    tally,          \* input and result of the resolution rule (SpecTally)
    ui              \* front-end store: React state of App and its pending callbacks

vars == <<balances, totalSupply, lockedTokens, reputations, proposals,
          proposalCount, now, last, tally, ui>>

chain == <<balances, totalSupply, lockedTokens, reputations, proposals,
           proposalCount>>

(***************************************************************************)
(* Bounds of the model                                                     *)
(***************************************************************************)
MaxProposals == 1
MaxTime == 2
MaxVoteCount == 2
MaxWeight == 4
MaxIds == 3
MaxPreview == 12
MaxOutcomes == 14

(***************************************************************************)
(* Program constants                                                       *)
(***************************************************************************)
UNIT == 10
INITIAL_SUPPLY == 8 * UNIT
MAX_SUPPLY == 9 * UNIT
VOTING_PERIOD == 2
QUORUM_PERCENTAGE == 20
APPROVAL_THRESHOLD == 50
PROPOSAL_THRESHOLD == 4 * UNIT
BASE_MULTIPLIER == 100
MAX_MULTIPLIER == 200
REPUTATION_THRESHOLD == 1000
CONSECUTIVE_BONUS == 10

\* The width of uint256, scaled down with the amounts: the products and sums
\* of caller-chosen numbers are checked against it (Solidity ^0.8.20).
UINT_BITS == 12
MAX_UINT == 2^UINT_BITS - 1

(***************************************************************************)
(* Addresses.  Deployer deploys the three contracts and receives the       *)
(* initial supply; DAO is the address of the ContentModerationDAO          *)
(* contract, which is msg.sender of every call the DAO makes to the token  *)
(* and to the reputation system.                                           *)
(***************************************************************************)
Deployer == "deployer"
DAO == "dao"
Users == {Deployer, "alice"}
Addr == Users \cup {DAO}
ZeroAddress == "0x0"

ProposalTypes == {"APPROVE", "REMOVE", "POLICY"}
TypeInputs == {"APPROVE"}
Terminal == {"Executed", "Rejected", "Expired"}
Amounts == {4 * UNIT}

LockAmounts == {4 * UNIT}
MintAmounts == {UNIT}
MintTargets == {Deployer}
TokenAmounts == {UNIT, 3 * UNIT}

(***************************************************************************)
(* Storage defaults: a Solidity mapping holds the zero value at every key  *)
(* that was never written (enum value 0 of ProposalStatus is Active).      *)
(***************************************************************************)
ZeroVote ==
    [hasVoted |-> FALSE, approve |-> FALSE, voteCount |-> 0,
     weightedPower |-> 0, tokensCost |-> 0]

ZeroProposal ==
    [id |-> 0, proposer |-> ZeroAddress, proposalType |-> "APPROVE",
     createdAt |-> 0, votingDeadline |-> 0, approveVotes |-> 0,
     rejectVotes |-> 0, status |-> "Active", executed |-> FALSE,
     votes |-> [a \in Addr |-> ZeroVote], voters |-> <<>>]

ZeroReputation ==
    [score |-> 0, totalVotes |-> 0, majorityVotes |-> 0,
     consecutiveCorrect |-> 0]

Call(op, sender, to, pid, amount, flag) ==
    [op |-> op, sender |-> sender, to |-> to, pid |-> pid, amount |-> amount,
     flag |-> flag]

NoCall == Call("none", ZeroAddress, ZeroAddress, 0, 0, FALSE)

(***************************************************************************)
(* GovernanceToken                                                         *)
(***************************************************************************)
\* Ownable: the deployer owns the token; nothing in the system transfers it.
tokenOwner == Deployer

\* availableBalance / the subtraction of lockTokens and _update: checked
\* arithmetic, a negative difference is a Panic.
availableBalance(bal, locked, account) == bal[account] - locked[account]

\* Mutant of mintError: the supply cap is not checked.
mintErrorNoCap(sender, amount) ==
    IF sender # tokenOwner THEN "OwnableUnauthorizedAccount"
    ELSE IF totalSupply + amount > MAX_UINT THEN "Panic"
    ELSE "ok"

\* mint: onlyOwner, then the supply cap, whose checked sum comes first.
mintError(sender, amount) ==
    IF sender # tokenOwner THEN "OwnableUnauthorizedAccount"
    ELSE IF totalSupply + amount > MAX_UINT THEN "Panic"
    ELSE IF ~(totalSupply + amount <= MAX_SUPPLY) THEN "Exceeds max supply"
    ELSE "ok"

\* lockTokens(amount) called by `sender`.
lockTokensError(bal, locked, sender, amount) ==
    IF availableBalance(bal, locked, sender) < 0 THEN "Panic"
    ELSE IF ~(availableBalance(bal, locked, sender) >= amount)
         THEN "Insufficient unlocked balance"
    ELSE "ok"

lockTokensEffect(locked, sender, amount) ==
    [locked EXCEPT ![sender] = @ + amount]

\* Mutant of unlockTokensError: the require compares with > for >=.
unlockTokensErrorStrict(locked, sender, amount) ==
    IF ~(locked[sender] > amount) THEN "Insufficient locked tokens" ELSE "ok"

\* unlockTokens(amount) called by `sender`.
unlockTokensError(locked, sender, amount) ==
    IF ~(locked[sender] >= amount) THEN "Insufficient locked tokens" ELSE "ok"

unlockTokensEffect(locked, sender, amount) ==
    [locked EXCEPT ![sender] = @ - amount]

\* Mutant of transferError: _update is not overridden, locked tokens move.
transferErrorIgnoresLock(bal, locked, from, amount) ==
    IF bal[from] < amount THEN "ERC20InsufficientBalance" ELSE "ok"

\* _update(from, to, amount) for from # address(0), then ERC20._update.
transferError(bal, locked, from, amount) ==
    IF availableBalance(bal, locked, from) < 0 THEN "Panic"
    ELSE IF ~(availableBalance(bal, locked, from) >= amount)
         THEN "Cannot transfer locked tokens"
    ELSE IF bal[from] < amount THEN "ERC20InsufficientBalance"
    ELSE "ok"

transferEffect(bal, from, to, amount) ==
    [a \in Addr |->
        (IF a = from THEN bal[a] - amount ELSE bal[a])
        + (IF a = to THEN amount ELSE 0)]

(***************************************************************************)
(* ReputationSystem                                                        *)
(***************************************************************************)
\* Ownable: the deployment transfers the ownership to the DAO contract.
reputationOwner == DAO

\* Mutant of recordVoteError: recordVote without onlyOwner.
recordVoteErrorAnyone(sender) == "ok"

recordVoteError(sender) ==
    IF sender # reputationOwner THEN "OwnableUnauthorizedAccount" ELSE "ok"

\* Mutant of recordVote: the score is not capped at REPUTATION_THRESHOLD.
recordVoteUncapped(rep, votedWithMajority) ==
    IF votedWithMajority
    THEN LET streak == rep.consecutiveCorrect + 1
             reputationGain == 10 + (streak * CONSECUTIVE_BONUS)
         IN  [score |-> rep.score + reputationGain,
              totalVotes |-> rep.totalVotes + 1,
              majorityVotes |-> rep.majorityVotes + 1,
              consecutiveCorrect |-> streak]
    ELSE [score |-> IF rep.score > 5 THEN rep.score - 5 ELSE 0,
          totalVotes |-> rep.totalVotes + 1,
          majorityVotes |-> rep.majorityVotes,
          consecutiveCorrect |-> 0]

\* Mutant of recordVote: the bonus is taken from the streak before its
\* increment.
recordVoteBonusBeforeIncrement(rep, votedWithMajority) ==
    IF votedWithMajority
    THEN LET reputationGain == 10 + (rep.consecutiveCorrect * CONSECUTIVE_BONUS)
             raised == rep.score + reputationGain
         IN  [score |-> IF raised > REPUTATION_THRESHOLD
                        THEN REPUTATION_THRESHOLD ELSE raised,
              totalVotes |-> rep.totalVotes + 1,
              majorityVotes |-> rep.majorityVotes + 1,
              consecutiveCorrect |-> rep.consecutiveCorrect + 1]
    ELSE [score |-> IF rep.score > 5 THEN rep.score - 5 ELSE 0,
          totalVotes |-> rep.totalVotes + 1,
          majorityVotes |-> rep.majorityVotes,
          consecutiveCorrect |-> 0]

\* Mutant of recordVote: the penalty keeps the streak and is floored only at
\* a score of 0.
recordVotePenaltyKeepsStreak(rep, votedWithMajority) ==
    IF votedWithMajority
    THEN LET streak == rep.consecutiveCorrect + 1
             reputationGain == 10 + (streak * CONSECUTIVE_BONUS)
             raised == rep.score + reputationGain
         IN  [score |-> IF raised > REPUTATION_THRESHOLD
                        THEN REPUTATION_THRESHOLD ELSE raised,
              totalVotes |-> rep.totalVotes + 1,
              majorityVotes |-> rep.majorityVotes + 1,
              consecutiveCorrect |-> streak]
    ELSE [score |-> IF rep.score > 0 THEN rep.score - 5 ELSE 0,
          totalVotes |-> rep.totalVotes + 1,
          majorityVotes |-> rep.majorityVotes,
          consecutiveCorrect |-> rep.consecutiveCorrect]

\* recordVote(user, votedWithMajority) on the record `rep` of user.  The
\* lastUpdateTime it also writes is read by no function and is left out.
recordVote(rep, votedWithMajority) ==
    IF votedWithMajority
    THEN LET streak == rep.consecutiveCorrect + 1
             reputationGain == 10 + (streak * CONSECUTIVE_BONUS)
             raised == rep.score + reputationGain
         IN  [score |-> IF raised > REPUTATION_THRESHOLD
                        THEN REPUTATION_THRESHOLD ELSE raised,
              totalVotes |-> rep.totalVotes + 1,
              majorityVotes |-> rep.majorityVotes + 1,
              consecutiveCorrect |-> streak]
    ELSE [score |-> IF rep.score > 5 THEN rep.score - 5 ELSE 0,
          totalVotes |-> rep.totalVotes + 1,
          majorityVotes |-> rep.majorityVotes,
          consecutiveCorrect |-> 0]

\* Mutant of getVotingMultiplier: the division comes before the
\* multiplication, as in the formula of the code's comment.
getVotingMultiplierDivideFirst(score) ==
    IF score = 0 THEN BASE_MULTIPLIER
    ELSE LET multiplier == BASE_MULTIPLIER + ((score \div REPUTATION_THRESHOLD) * 100)
         IN  IF multiplier > MAX_MULTIPLIER THEN MAX_MULTIPLIER ELSE multiplier

\* getVotingMultiplier for a record with the given score.
getVotingMultiplier(score) ==
    IF score = 0 THEN BASE_MULTIPLIER
    ELSE LET multiplier == BASE_MULTIPLIER + ((score * 100) \div REPUTATION_THRESHOLD)
         IN  IF multiplier > MAX_MULTIPLIER THEN MAX_MULTIPLIER ELSE multiplier

getAccuracy(rep) ==
    IF rep.totalVotes = 0 THEN 0
    ELSE (rep.majorityVotes * 100) \div rep.totalVotes

(***************************************************************************)
(* ContentModerationDAO                                                    *)
(***************************************************************************)
validProposalId(pid) == pid > 0 /\ pid <= proposalCount

\* Mutant of createProposalError: the require compares the available balance.
createProposalErrorAvailable(sender) ==
    IF ~(availableBalance(balances, lockedTokens, sender) >= PROPOSAL_THRESHOLD)
    THEN "Insufficient tokens to create proposal"
    ELSE "ok"

\* createProposal: the only require compares the proposer's balanceOf.
createProposalError(sender) ==
    IF ~(balances[sender] >= PROPOSAL_THRESHOLD)
    THEN "Insufficient tokens to create proposal"
    ELSE "ok"

\* Mutant of newProposalId: the id is taken before the increment.
newProposalIdBeforeIncrement(count) == count

\* proposalCount++; proposalId = proposalCount.
newProposalId(count) == count + 1

\* Mutant of createProposalEffect: the deadline is not offset by the time of
\* the creation.
createProposalEffectFixedDeadline(p, pid, sender, proposalType) ==
    [p EXCEPT !.id = pid, !.proposer = sender, !.proposalType = proposalType,
              !.createdAt = now, !.votingDeadline = VOTING_PERIOD,
              !.status = "Active", !.executed = FALSE]

\* The fields createProposal assigns; the others keep their storage value.
createProposalEffect(p, pid, sender, proposalType) ==
    [p EXCEPT !.id = pid, !.proposer = sender, !.proposalType = proposalType,
              !.createdAt = now, !.votingDeadline = now + VOTING_PERIOD,
              !.status = "Active", !.executed = FALSE]

\* Mutant of calculateVoteCost: the cost is linear in the vote count.
calculateVoteCostLinear(voteCount) == voteCount * UNIT

\* calculateVoteCost, and the tokensCost of vote: the value the product has
\* in the width of the integers.
calculateVoteCost(voteCount) == (voteCount * voteCount * UNIT) % (MAX_UINT + 1)

\* Mutant of voteCostError: the product is unchecked and wraps.
voteCostErrorUnchecked(voteCount) == "ok"

\* The checked products voteCount * voteCount and (...) * 10**18.
voteCostError(voteCount) ==
    IF voteCount * voteCount > MAX_UINT THEN "Panic"
    ELSE IF (voteCount * voteCount) * UNIT > MAX_UINT THEN "Panic"
    ELSE "ok"

\* Mutant of calculateVotingPower: the division rounds up.
calculateVotingPowerRoundsUp(voter, voteCount) ==
    (voteCount * getVotingMultiplier(reputations[voter].score) + 99) \div 100

\* calculateVotingPower, and the weightedPower of vote.
calculateVotingPower(voter, voteCount) ==
    (voteCount * getVotingMultiplier(reputations[voter].score)) \div 100

\* The checked product voteCount * multiplier.
votingPowerError(voter, voteCount) ==
    IF voteCount * getVotingMultiplier(reputations[voter].score) > MAX_UINT
    THEN "Panic" ELSE "ok"

\* Mutant of hasVoted: the "Already voted" require is missing.
hasVotedNotChecked(p, sender) == FALSE

\* require(!proposal.votes[msg.sender].hasVoted, "Already voted")
hasVoted(p, sender) == p.votes[sender].hasVoted

\* Mutant of voteError: the "Voting period ended" require is missing.
voteErrorNoDeadline(sender, pid, voteCount) ==
    IF ~validProposalId(pid) THEN "Invalid proposal ID"
    ELSE IF proposals[pid].status # "Active" THEN "Proposal not active"
    ELSE IF hasVoted(proposals[pid], sender) THEN "Already voted"
    ELSE IF ~(voteCount > 0) THEN "Vote count must be positive"
    ELSE IF voteCostError(voteCount) # "ok" THEN "Panic"
    ELSE IF ~(balances[sender] >= calculateVoteCost(voteCount))
         THEN "Insufficient tokens for vote cost"
    ELSE IF votingPowerError(sender, voteCount) # "ok" THEN "Panic"
    ELSE lockTokensError(balances, lockedTokens, DAO, calculateVoteCost(voteCount))

\* Mutant of voteError: a failure of the lockTokens call is swallowed.
voteErrorLockUnchecked(sender, pid, voteCount) ==
    IF ~validProposalId(pid) THEN "Invalid proposal ID"
    ELSE IF proposals[pid].status # "Active" THEN "Proposal not active"
    ELSE IF ~(now < proposals[pid].votingDeadline) THEN "Voting period ended"
    ELSE IF hasVoted(proposals[pid], sender) THEN "Already voted"
    ELSE IF ~(voteCount > 0) THEN "Vote count must be positive"
    ELSE IF voteCostError(voteCount) # "ok" THEN "Panic"
    ELSE IF ~(balances[sender] >= calculateVoteCost(voteCount))
         THEN "Insufficient tokens for vote cost"
    ELSE IF votingPowerError(sender, voteCount) # "ok" THEN "Panic"
    ELSE "ok"

\* Mutant of voteError: the "Proposal not active" require is missing.
voteErrorNoStatus(sender, pid, voteCount) ==
    IF ~validProposalId(pid) THEN "Invalid proposal ID"
    ELSE IF ~(now < proposals[pid].votingDeadline) THEN "Voting period ended"
    ELSE IF hasVoted(proposals[pid], sender) THEN "Already voted"
    ELSE IF ~(voteCount > 0) THEN "Vote count must be positive"
    ELSE IF voteCostError(voteCount) # "ok" THEN "Panic"
    ELSE IF ~(balances[sender] >= calculateVoteCost(voteCount))
         THEN "Insufficient tokens for vote cost"
    ELSE IF votingPowerError(sender, voteCount) # "ok" THEN "Panic"
    ELSE lockTokensError(balances, lockedTokens, DAO, calculateVoteCost(voteCount))

\* vote: the requires in the order of the code, then lockTokens, which the
\* DAO contract calls on the token (msg.sender of that call is the DAO).
voteError(sender, pid, voteCount) ==
    IF ~validProposalId(pid) THEN "Invalid proposal ID"
    ELSE IF proposals[pid].status # "Active" THEN "Proposal not active"
    ELSE IF ~(now < proposals[pid].votingDeadline) THEN "Voting period ended"
    ELSE IF hasVoted(proposals[pid], sender) THEN "Already voted"
    ELSE IF ~(voteCount > 0) THEN "Vote count must be positive"
    ELSE IF voteCostError(voteCount) # "ok" THEN "Panic"
    ELSE IF ~(balances[sender] >= calculateVoteCost(voteCount))
         THEN "Insufficient tokens for vote cost"
    ELSE IF votingPowerError(sender, voteCount) # "ok" THEN "Panic"
    ELSE lockTokensError(balances, lockedTokens, DAO, calculateVoteCost(voteCount))

\* Mutant of voteEffect: the first vote on a proposal weighs one more.
voteEffectEarlyBonus(p, sender, approve, voteCount) ==
    LET weightedPower == calculateVotingPower(sender, voteCount)
                            + (IF Len(p.voters) = 0 THEN 1 ELSE 0)
        userVote == [hasVoted |-> TRUE, approve |-> approve,
                     voteCount |-> voteCount, weightedPower |-> weightedPower,
                     tokensCost |-> calculateVoteCost(voteCount)]
    IN  [p EXCEPT !.votes[sender] = userVote,
                  !.voters = Append(@, sender),
                  !.approveVotes = IF approve THEN @ + weightedPower ELSE @,
                  !.rejectVotes = IF approve THEN @ ELSE @ + weightedPower]

\* Mutant of voteEffect: the voter is put at the head of proposal.voters.
voteEffectPrepends(p, sender, approve, voteCount) ==
    LET weightedPower == calculateVotingPower(sender, voteCount)
        userVote == [hasVoted |-> TRUE, approve |-> approve,
                     voteCount |-> voteCount, weightedPower |-> weightedPower,
                     tokensCost |-> calculateVoteCost(voteCount)]
    IN  [p EXCEPT !.votes[sender] = userVote,
                  !.voters = <<sender>> \o @,
                  !.approveVotes = IF approve THEN @ + weightedPower ELSE @,
                  !.rejectVotes = IF approve THEN @ ELSE @ + weightedPower]

voteEffect(p, sender, approve, voteCount) ==
    LET weightedPower == calculateVotingPower(sender, voteCount)
        userVote == [hasVoted |-> TRUE, approve |-> approve,
                     voteCount |-> voteCount, weightedPower |-> weightedPower,
                     tokensCost |-> calculateVoteCost(voteCount)]
    IN  [p EXCEPT !.votes[sender] = userVote,
                  !.voters = Append(@, sender),
                  !.approveVotes = IF approve THEN @ + weightedPower ELSE @,
                  !.rejectVotes = IF approve THEN @ ELSE @ + weightedPower]

\* Mutant of resolveStatus: the approval threshold compared with > for >=.
resolveStatusStrictApproval(approveVotes, rejectVotes, supply) ==
    LET totalVotes == approveVotes + rejectVotes
        quorumRequired == (supply * QUORUM_PERCENTAGE) \div 100
    IN  IF totalVotes >= quorumRequired
        THEN IF totalVotes = 0 THEN "Panic"
             ELSE IF (approveVotes * 100) \div totalVotes > APPROVAL_THRESHOLD
                  THEN "Executed" ELSE "Rejected"
        ELSE "Expired"

\* Mutant of resolveStatus: the quorum-failure branch assigns no status.
resolveStatusKeepsActive(approveVotes, rejectVotes, supply) ==
    LET totalVotes == approveVotes + rejectVotes
        quorumRequired == (supply * QUORUM_PERCENTAGE) \div 100
    IN  IF totalVotes >= quorumRequired
        THEN IF totalVotes = 0 THEN "Panic"
             ELSE IF (approveVotes * 100) \div totalVotes >= APPROVAL_THRESHOLD
                  THEN "Executed" ELSE "Rejected"
        ELSE "Active"

\* Mutant of resolveStatus: the quorum check is missing.
resolveStatusNoQuorum(approveVotes, rejectVotes, supply) ==
    LET totalVotes == approveVotes + rejectVotes
    IN  IF totalVotes = 0 THEN "Panic"
        ELSE IF (approveVotes * 100) \div totalVotes >= APPROVAL_THRESHOLD
             THEN "Executed" ELSE "Rejected"

\* executeProposal: the quorum and approval rule; "Panic" is the division by
\* a zero totalVotes.
resolveStatus(approveVotes, rejectVotes, supply) ==
    LET totalVotes == approveVotes + rejectVotes
        quorumRequired == (supply * QUORUM_PERCENTAGE) \div 100
    IN  IF totalVotes >= quorumRequired
        THEN IF totalVotes = 0 THEN "Panic"
             ELSE IF (approveVotes * 100) \div totalVotes >= APPROVAL_THRESHOLD
                  THEN "Executed" ELSE "Rejected"
        ELSE "Expired"

\* Mutant of executeLoop: the loop unlocks but records no reputation outcome.
RECURSIVE executeLoopNoReputation(_, _, _, _, _)
executeLoopNoReputation(p, i, locked, reps, majorityApproved) ==
    IF i > Len(p.voters)
    THEN [err |-> "ok", locked |-> locked, reps |-> reps]
    ELSE LET userVote == p.votes[p.voters[i]]
             unlockErr == unlockTokensError(locked, DAO, userVote.tokensCost)
         IN  IF unlockErr # "ok"
             THEN [err |-> unlockErr, locked |-> locked, reps |-> reps]
             ELSE executeLoopNoReputation(p, i + 1,
                      unlockTokensEffect(locked, DAO, userVote.tokensCost),
                      reps, majorityApproved)

\* executeProposal: the loop over proposal.voters from index i on.  Each
\* round the DAO calls unlockTokens and recordVote (msg.sender is the DAO).
RECURSIVE executeLoop(_, _, _, _, _)
executeLoop(p, i, locked, reps, majorityApproved) ==
    IF i > Len(p.voters)
    THEN [err |-> "ok", locked |-> locked, reps |-> reps]
    ELSE LET voter == p.voters[i]
             userVote == p.votes[voter]
             unlockErr == unlockTokensError(locked, DAO, userVote.tokensCost)
             votedWithMajority == (userVote.approve = majorityApproved)
         IN  IF unlockErr # "ok"
             THEN [err |-> unlockErr, locked |-> locked, reps |-> reps]
             ELSE IF recordVoteError(DAO) # "ok"
             THEN [err |-> recordVoteError(DAO), locked |-> locked, reps |-> reps]
             ELSE executeLoop(p, i + 1,
                      unlockTokensEffect(locked, DAO, userVote.tokensCost),
                      [reps EXCEPT ![voter] = recordVote(@, votedWithMajority)],
                      majorityApproved)

\* bool majorityApproved = proposal.approveVotes > proposal.rejectVotes
isMajorityApproved(approveVotes, rejectVotes) == approveVotes > rejectVotes

executeRun(pid) ==
    executeLoop(proposals[pid], 1, lockedTokens, reputations,
                isMajorityApproved(proposals[pid].approveVotes,
                                   proposals[pid].rejectVotes))

\* Mutant of executeError: the "Voting period not ended" require is missing.
executeErrorNoDeadline(pid) ==
    IF ~validProposalId(pid) THEN "Invalid proposal ID"
    ELSE IF proposals[pid].status # "Active" THEN "Proposal not active"
    ELSE IF proposals[pid].executed THEN "Proposal already executed"
    ELSE IF resolveStatus(proposals[pid].approveVotes, proposals[pid].rejectVotes,
                          totalSupply) = "Panic" THEN "Panic"
    ELSE executeRun(pid).err

\* executeProposal: the requires in the order of the code, then the failures
\* of the body.
executeError(pid) ==
    IF ~validProposalId(pid) THEN "Invalid proposal ID"
    ELSE IF proposals[pid].status # "Active" THEN "Proposal not active"
    ELSE IF ~(now >= proposals[pid].votingDeadline) THEN "Voting period not ended"
    ELSE IF proposals[pid].executed THEN "Proposal already executed"
    ELSE IF resolveStatus(proposals[pid].approveVotes, proposals[pid].rejectVotes,
                          totalSupply) = "Panic" THEN "Panic"
    ELSE executeRun(pid).err

(***************************************************************************)
(* Front-end store (src/App.tsx).  The React state of App is the record    *)
(* ui: user (null until the wallet is connected), proposals (the list the  *)
(* cards are drawn from), selectedProposal (the proposal object handed to  *)
(* the voting modal, null when the modal is closed) and isProcessing of    *)
(* the mounted VotingInterface; one wallet, new to the leaderboard,        *)
(* connects and stays connected.  handleVote, handleCreateProposal and                  *)
(* handleExecuteProposal are closures of one render: they read the user    *)
(* and the proposals of the render in which the click happened, and they   *)
(* run later, after the wallet signature and a timer.  ui.pending is the   *)
(* bag of the callbacks that are due, each with the values its closure     *)
(* reads; ui.clicks counts the votes, submissions and executions           *)
(* confirmed in the wallet so far and ui.submitted the submissions         *)
(* (Date.now() gives each proposal created a fresh id: the number of       *)
(* proposals created before it).  Reputation is kept in half points and    *)
(* votingPower in 1/200, so that votes / 2 and 1 + reputation / 100 stay   *)
(* integers.  ui.charged is history: the bag of the ids of the proposals   *)
(* for a vote on which the balance of the moment was lowered by the cost.  *)
(* Titles, descriptions, URLs and time stamps are opaque to the handlers   *)
(* and are left out; the front end keeps no chain state and the contracts  *)
(* keep none of its.                                                       *)
(***************************************************************************)
MaxUiClicks == 3

AIRDROP == 1000
PASS_VOTES == 10
SLIDER_MAX == 31
UiVoteAmounts == {1, 7}

UiAddress == "0xUser"

UiNoUser ==
    [address |-> "null", tokenBalance |-> 0, reputation2 |-> 0,
     votingPower200 |-> 0, totalVotes |-> 0, majorityAlignment |-> 0]

\* newUser of handleWalletConnect: reputation 50, votingPower 1.5.
UiNewUser ==
    [address |-> UiAddress, tokenBalance |-> AIRDROP, reputation2 |-> 100,
     votingPower200 |-> 300, totalVotes |-> 0, majorityAlignment |-> 0]

UiVoter(address, votes, support, cost) ==
    [address |-> address, votes |-> votes, support |-> support, cost |-> cost]

UiProposal(id, status, votesFor, votesAgainst, voters) ==
    [id |-> id, status |-> status, votesFor |-> votesFor,
     votesAgainst |-> votesAgainst, voters |-> voters]

UiNoProposal == UiProposal(0, "null", 0, 0, <<>>)

initialProposals ==
    << UiProposal(1, "active", 245, 32,
                  << UiVoter("0x1a2b", 10, TRUE, 100),
                     UiVoter("0x3c4d", 5, FALSE, 25) >>),
       UiProposal(2, "active", 512, 89,
                  << UiVoter("0x5e6f", 15, TRUE, 225),
                     UiVoter("0x7g8h", 8, TRUE, 64) >>),
       UiProposal(3, "passed", 891, 45, <<>>) >>

\* The store after the mount effect, before a wallet is connected.
UiStart ==
    [user |-> UiNoUser, proposals |-> initialProposals,
     selectedProposal |-> UiNoProposal, isProcessing |-> FALSE,
     pending |-> EmptyBag, clicks |-> 0, submitted |-> 0,
     charged |-> EmptyBag]

UiCallback(kind, ps, user, proposalId, votes, support, cost) ==
    [kind |-> kind, proposals |-> ps, user |-> user, proposalId |-> proposalId,
     votes |-> votes, support |-> support, cost |-> cost]

uiCeilDiv(a, b) == (a + b - 1) \div b

uiMin(a, b) == IF a < b THEN a ELSE b

calculateCost(votes) == votes * votes

getEffectiveVotes(user, votes) == uiCeilDiv(votes * user.votingPower200, 200)

uiHasVoted(proposal, address) ==
    \E i \in 1..Len(proposal.voters) : proposal.voters[i].address = address

\* approvalRate > 0.5, where approvalRate is votesFor / totalVotes, or 0 when
\* there are no votes.
approvalAboveHalf(votesFor, votesAgainst) ==
    /\ votesFor + votesAgainst > 0
    /\ 2 * votesFor > votesFor + votesAgainst

\* The callback of proposals.map in handleVote, for the proposal it matches.
votedProposal(p, user, votes, support, cost) ==
    LET updatedVotesFor == IF support THEN p.votesFor + votes ELSE p.votesFor
        updatedVotesAgainst ==
            IF ~support THEN p.votesAgainst + votes ELSE p.votesAgainst
        totalVotes == updatedVotesFor + updatedVotesAgainst
        newStatus ==
            IF /\ p.status = "active"
               /\ totalVotes >= PASS_VOTES
               /\ approvalAboveHalf(updatedVotesFor, updatedVotesAgainst)
            THEN "passed" ELSE p.status
    IN  UiProposal(p.id, newStatus, updatedVotesFor, updatedVotesAgainst,
                   Append(p.voters, UiVoter(user.address, votes, support, cost)))

\* The list handleVote hands to setProposals: the list of its own render with
\* the vote added to the proposal of that id.
handleVoteProposals(ps, user, proposalId, votes, support, cost) ==
    [i \in 1..Len(ps) |->
        IF ps[i].id = proposalId
        THEN votedProposal(ps[i], user, votes, support, cost)
        ELSE ps[i]]

\* The user handleVote hands to setUser: the user of its own render, charged.
handleVoteUser(user, cost) ==
    [user EXCEPT !.tokenBalance = user.tokenBalance - cost,
                 !.totalVotes = user.totalVotes + 1]

\* The list handleCreateProposal hands to setProposals.
handleCreateProposalList(ps, id) ==
    <<UiProposal(id, "active", 0, 0, <<>>)>> \o ps

\* The list handleExecuteProposal hands to setProposals.
handleExecuteProposalList(ps, proposalId) ==
    [i \in 1..Len(ps) |->
        IF ps[i].id = proposalId
        THEN [ps[i] EXCEPT !.status =
                 IF approvalAboveHalf(ps[i].votesFor, ps[i].votesAgainst)
                 THEN "executed" ELSE "rejected"]
        ELSE ps[i]]

\* The updater of the reputation timer of handleVote, applied to the user u
\* of the moment the timer fires.
reputationUpdate(u, votes) ==
    IF u = UiNoUser THEN u
    ELSE LET rep == uiMin(200, u.reputation2 + uiMin(10, votes))
         IN  [u EXCEPT !.reputation2 = rep,
                       !.votingPower200 = 200 + rep,
                       !.majorityAlignment = uiMin(100, u.majorityAlignment + 1)]

\* Whether the reputation timer finds the voter on the side of the majority,
\* in the list that handleVote captured.
uiVotedWithMajority(ps, proposalId, support) ==
    \E i \in 1..Len(ps) :
        /\ ps[i].id = proposalId
        /\ \A j \in 1..(i - 1) : ps[j].id # proposalId
        /\ (ps[i].votesFor > ps[i].votesAgainst) = support

\* The callbacks of one kind that are due.
pendingOfKind(kind) == {c \in BagToSet(ui.pending) : c.kind = kind}

\* The number of create callbacks that are due.
pendingCreates ==
    LET RECURSIVE count(_)
        count(S) == IF S = {} THEN 0
                    ELSE LET c == CHOOSE x \in S : TRUE
                         IN  CopiesIn(c, ui.pending) + count(S \ {c})
    IN  count(pendingOfKind("create"))

UiFrame == UNCHANGED <<balances, totalSupply, lockedTokens, reputations,
                       proposals, proposalCount, now, last, tally>>

\* handleWalletConnect for an address the leaderboard does not hold.
WalletConnect ==
    /\ ui.user = UiNoUser
    /\ ui' = [ui EXCEPT !.user = UiNewUser]
    /\ UiFrame

\* "Vote Now" of the card of the i-th proposal: shown while the proposal is
\* active and the list holds no vote of the user on it.
SelectProposal(i) ==
    /\ ui.user # UiNoUser
    /\ ui.selectedProposal = UiNoProposal
    /\ i \in 1..Len(ui.proposals)
    /\ ui.proposals[i].status = "active"
    /\ ~uiHasVoted(ui.proposals[i], ui.user.address)
    /\ ui' = [ui EXCEPT !.selectedProposal = ui.proposals[i],
                        !.isProcessing = FALSE]
    /\ UiFrame

\* onOpenChange of the dialog (Escape, the close button) and Cancel.
CloseVoting ==
    /\ ui.user # UiNoUser
    /\ ui.selectedProposal # UiNoProposal
    /\ ui' = [ui EXCEPT !.selectedProposal = UiNoProposal,
                        !.isProcessing = FALSE]
    /\ UiFrame

\* handleVote of VotingInterface, up to the timer it sets once the wallet has
\* signed: the callback is due with the onVote of this render.
ConfirmVote(voteAmount, support) ==
    /\ ui.user # UiNoUser
    /\ ui.selectedProposal # UiNoProposal
    /\ ~uiHasVoted(ui.selectedProposal, ui.user.address)
    /\ ~ui.isProcessing
    /\ voteAmount <= SLIDER_MAX
    /\ calculateCost(voteAmount) <= ui.user.tokenBalance
    /\ ui.clicks < MaxUiClicks
    /\ ui' = [ui EXCEPT
                !.isProcessing = TRUE,
                !.clicks = @ + 1,
                !.pending = @ (+) SetToBag({
                    UiCallback("vote", ui.proposals, ui.user,
                               ui.selectedProposal.id,
                               getEffectiveVotes(ui.user, voteAmount), support,
                               calculateCost(voteAmount))})]
    /\ UiFrame

\* The reputation timer that handleVote sets: of the values handleVote
\* captured it reads the votes and whether the voter sided with the majority.
reputationTimer(c) ==
    UiCallback("reputation", <<>>, UiNoUser, c.proposalId, c.votes,
               uiVotedWithMajority(c.proposals, c.proposalId, c.support), 0)

\* The timer of VotingInterface fires: handleVote of App, then onClose.
VoteCallback(c) ==
    /\ BagIn(c, ui.pending)
    /\ c.kind = "vote"
    /\ LET u == handleVoteUser(c.user, c.cost)
       IN  ui' = [ui EXCEPT
                    !.proposals = handleVoteProposals(c.proposals, c.user,
                                      c.proposalId, c.votes, c.support, c.cost),
                    !.user = u,
                    !.selectedProposal = UiNoProposal,
                    !.isProcessing = FALSE,
                    !.pending = (@ (-) SetToBag({c}))
                                (+) SetToBag({reputationTimer(c)}),
                    !.charged = IF u.tokenBalance = ui.user.tokenBalance - c.cost
                                THEN @ (+) SetToBag({c.proposalId}) ELSE @]
    /\ UiFrame

ReputationCallback(c) ==
    /\ BagIn(c, ui.pending)
    /\ c.kind = "reputation"
    /\ LET u == IF c.support THEN reputationUpdate(ui.user, c.votes)
                ELSE ui.user
       IN  ui' = [ui EXCEPT !.user = u,
                            !.pending = @ (-) SetToBag({c})]
    /\ UiFrame

\* handleSubmit of CreateProposal, up to the timer it sets once the wallet has
\* signed.  Of the user of its render handleCreateProposal reads whether it
\* is null, which it is not where the form is shown, and the address.
SubmitProposal ==
    /\ ui.user # UiNoUser
    /\ ui.selectedProposal = UiNoProposal
    /\ ui.clicks < MaxUiClicks
    /\ ui' = [ui EXCEPT
                !.clicks = @ + 1,
                !.submitted = @ + 1,
                !.pending = @ (+) SetToBag({
                    UiCallback("create", ui.proposals, UiNoUser, 0, 0, FALSE, 0)})]
    /\ UiFrame

\* The timer of CreateProposal fires: handleCreateProposal of App.
CreateCallback(c) ==
    /\ BagIn(c, ui.pending)
    /\ c.kind = "create"
    /\ ui' = [ui EXCEPT
                !.proposals = handleCreateProposalList(c.proposals,
                    Len(initialProposals) + ui.submitted - pendingCreates + 1),
                !.pending = @ (-) SetToBag({c})]
    /\ UiFrame

\* The Execute button of the card of the i-th proposal, shown while the
\* proposal is passed, up to the wallet's signature.
ConfirmExecute(i) ==
    /\ ui.user # UiNoUser
    /\ ui.selectedProposal = UiNoProposal
    /\ i \in 1..Len(ui.proposals)
    /\ ui.proposals[i].status = "passed"
    /\ ui.clicks < MaxUiClicks
    /\ ui' = [ui EXCEPT
                !.clicks = @ + 1,
                !.pending = @ (+) SetToBag({
                    UiCallback("execute", ui.proposals, UiNoUser,
                               ui.proposals[i].id, 0, FALSE, 0)})]
    /\ UiFrame

\* The wallet has signed: onExecute of the card, handleExecuteProposal of App.
ExecuteCallback(c) ==
    /\ BagIn(c, ui.pending)
    /\ c.kind = "execute"
    /\ ui' = [ui EXCEPT
                !.proposals = handleExecuteProposalList(c.proposals,
                                                        c.proposalId),
                !.pending = @ (-) SetToBag({c})]
    /\ UiFrame

(***************************************************************************)
(* Initial state: the three contracts deployed, the initial supply minted  *)
(* to the deployer, the reputation system owned by the DAO.                *)
(***************************************************************************)
TallyInputs ==
    [approveVotes : 0..MaxWeight, rejectVotes : 0..MaxWeight,
     supply : {UNIT, 2 * UNIT, 3 * UNIT}, status : {"none"}]

Init ==
    /\ balances = [a \in Addr |-> IF a = Deployer THEN INITIAL_SUPPLY ELSE 0]
    /\ totalSupply = INITIAL_SUPPLY
    /\ lockedTokens = [a \in Addr |-> 0]
    /\ reputations = [a \in Addr |-> ZeroReputation]
    /\ proposals = [i \in 0..MaxProposals |-> ZeroProposal]
    /\ proposalCount = 0
    /\ now = 0
    /\ last = NoCall
    /\ tally = [approveVotes |-> 0, rejectVotes |-> 0, supply |-> 0, status |-> "none"]
    /\ ui = UiStart

(***************************************************************************)
(* Actions: one per public function, plus the passing of time.             *)
(***************************************************************************)
Mint(sender, to, amount) ==
    /\ mintError(sender, amount) = "ok"
    /\ balances' = [balances EXCEPT ![to] = @ + amount]
    /\ totalSupply' = totalSupply + amount
    /\ last' = Call("mint", sender, to, 0, amount, FALSE)
    /\ UNCHANGED <<lockedTokens, reputations, proposals, proposalCount, now, tally, ui>>

Transfer(sender, to, amount) ==
    /\ transferError(balances, lockedTokens, sender, amount) = "ok"
    /\ balances' = transferEffect(balances, sender, to, amount)
    /\ last' = Call("transfer", sender, to, 0, amount, FALSE)
    /\ UNCHANGED <<totalSupply, lockedTokens, reputations, proposals,
                   proposalCount, now, tally, ui>>

\* Mutant of LockTokens: the locked amount leaves the balance.
LockTokensSpends(sender, amount) ==
    /\ lockTokensError(balances, lockedTokens, sender, amount) = "ok"
    /\ lockedTokens' = lockTokensEffect(lockedTokens, sender, amount)
    /\ balances' = [balances EXCEPT ![sender] = @ - amount]
    /\ last' = Call("lockTokens", sender, ZeroAddress, 0, amount, FALSE)
    /\ UNCHANGED <<totalSupply, reputations, proposals, proposalCount, now, tally, ui>>

LockTokens(sender, amount) ==
    /\ lockTokensError(balances, lockedTokens, sender, amount) = "ok"
    /\ lockedTokens' = lockTokensEffect(lockedTokens, sender, amount)
    /\ last' = Call("lockTokens", sender, ZeroAddress, 0, amount, FALSE)
    /\ UNCHANGED <<balances, totalSupply, reputations, proposals,
                   proposalCount, now, tally, ui>>

UnlockTokens(sender, amount) ==
    /\ unlockTokensError(lockedTokens, sender, amount) = "ok"
    /\ lockedTokens' = unlockTokensEffect(lockedTokens, sender, amount)
    /\ last' = Call("unlockTokens", sender, ZeroAddress, 0, amount, FALSE)
    /\ UNCHANGED <<balances, totalSupply, reputations, proposals,
                   proposalCount, now, tally, ui>>

\* createProposal while fewer than `limit` proposals exist.
CreateProposalBelow(limit, sender, proposalType) ==
    /\ proposalCount < limit
    /\ createProposalError(sender) = "ok"
    /\ proposalCount' = proposalCount + 1
    /\ proposals' = [proposals EXCEPT
          ![newProposalId(proposalCount)] =
              createProposalEffect(@, newProposalId(proposalCount), sender, proposalType)]
    /\ last' = Call("createProposal", sender, ZeroAddress,
                    newProposalId(proposalCount), 0, FALSE)
    /\ UNCHANGED <<balances, totalSupply, lockedTokens, reputations, now, tally, ui>>

CreateProposal(sender, proposalType) ==
    CreateProposalBelow(MaxProposals, sender, proposalType)

Vote(sender, pid, approve, voteCount) ==
    /\ voteError(sender, pid, voteCount) = "ok"
    /\ lockedTokens' = lockTokensEffect(lockedTokens, DAO, calculateVoteCost(voteCount))
    /\ proposals' = [proposals EXCEPT ![pid] = voteEffect(@, sender, approve, voteCount)]
    /\ last' = Call("vote", sender, ZeroAddress, pid, voteCount, approve)
    /\ UNCHANGED <<balances, totalSupply, reputations, proposalCount, now, tally, ui>>

\* Mutant of ExecuteProposal: proposal.executed is not set.
ExecuteProposalFlagUnset(pid) ==
    /\ executeError(pid) = "ok"
    /\ proposals' = [proposals EXCEPT
          ![pid].status = resolveStatus(proposals[pid].approveVotes,
                                        proposals[pid].rejectVotes, totalSupply)]
    /\ lockedTokens' = executeRun(pid).locked
    /\ reputations' = executeRun(pid).reps
    /\ last' = Call("executeProposal", ZeroAddress, ZeroAddress, pid, 0, FALSE)
    /\ UNCHANGED <<balances, totalSupply, proposalCount, now, tally, ui>>

\* executeProposal does not read msg.sender: anyone may call it.
ExecuteProposal(pid) ==
    /\ executeError(pid) = "ok"
    /\ proposals' = [proposals EXCEPT
          ![pid].status = resolveStatus(proposals[pid].approveVotes,
                                        proposals[pid].rejectVotes, totalSupply),
          ![pid].executed = TRUE]
    /\ lockedTokens' = executeRun(pid).locked
    /\ reputations' = executeRun(pid).reps
    /\ last' = Call("executeProposal", ZeroAddress, ZeroAddress, pid, 0, FALSE)
    /\ UNCHANGED <<balances, totalSupply, proposalCount, now, tally, ui>>

AdvanceTime ==
    /\ now < MaxTime
    /\ now' = now + 1
    /\ last' = Call("time", ZeroAddress, ZeroAddress, 0, 0, FALSE)
    /\ UNCHANGED <<balances, totalSupply, lockedTokens, reputations, proposals,
                   proposalCount, tally, ui>>

Next ==
    \/ \E s \in Users, to \in MintTargets, amount \in MintAmounts : Mint(s, to, amount)
    \/ \E s \in Users, to \in Addr, amount \in Amounts : Transfer(s, to, amount)
    \/ \E s \in Users, amount \in LockAmounts : LockTokens(s, amount)
    \/ \E s \in Users, amount \in LockAmounts : UnlockTokens(s, amount)
    \/ \E s \in Users, t \in TypeInputs : CreateProposal(s, t)
    \/ \E s \in Users, pid \in 0..MaxProposals, approve \in BOOLEAN,
          n \in 0..MaxVoteCount : Vote(s, pid, approve, n)
    \/ \E pid \in 0..MaxProposals : ExecuteProposal(pid)
    \/ AdvanceTime

Spec == Init /\ [][Next]_vars

(***************************************************************************)
(* The resolution rule of executeProposal as a function of the tallies     *)
(* and the total supply, applied to every input of TallyInputs.            *)
(***************************************************************************)
InitTally ==
    /\ balances = [a \in Addr |-> IF a = Deployer THEN INITIAL_SUPPLY ELSE 0]
    /\ totalSupply = INITIAL_SUPPLY
    /\ lockedTokens = [a \in Addr |-> 0]
    /\ reputations = [a \in Addr |-> ZeroReputation]
    /\ proposals = [i \in 0..MaxProposals |-> ZeroProposal]
    /\ proposalCount = 0
    /\ now = 0
    /\ last = NoCall
    /\ tally \in TallyInputs
    /\ ui = UiStart

TallyResolve ==
    /\ tally.status = "none"
    /\ tally' = [tally EXCEPT !.status =
                    resolveStatus(tally.approveVotes, tally.rejectVotes, tally.supply)]
    /\ UNCHANGED <<balances, totalSupply, lockedTokens, reputations, proposals,
                   proposalCount, now, last, ui>>

NextTally == TallyResolve

SpecTally == InitTally /\ [][NextTally]_vars

(***************************************************************************)
(* The creation of proposals alone, up to MaxIds of them, with the token   *)
(* operations that decide who may create one.                              *)
(***************************************************************************)
InitIds ==
    /\ balances = [a \in Addr |-> IF a = Deployer THEN INITIAL_SUPPLY ELSE 0]
    /\ totalSupply = INITIAL_SUPPLY
    /\ lockedTokens = [a \in Addr |-> 0]
    /\ reputations = [a \in Addr |-> ZeroReputation]
    /\ proposals = [i \in 0..MaxIds |-> ZeroProposal]
    /\ proposalCount = 0
    /\ now = 0
    /\ last = NoCall
    /\ tally = [approveVotes |-> 0, rejectVotes |-> 0, supply |-> 0, status |-> "none"]
    /\ ui = UiStart

NextIds ==
    \/ \E s \in Users, to \in Addr, amount \in Amounts : Transfer(s, to, amount)
    \/ \E s \in Users, amount \in LockAmounts : LockTokens(s, amount)
    \/ \E s \in Users, t \in TypeInputs : CreateProposalBelow(MaxIds, s, t)
    \/ AdvanceTime

SpecIds == InitIds /\ [][NextIds]_vars

(***************************************************************************)
(* GovernanceToken alone: mint, transfer, lockTokens and unlockTokens with *)
(* amounts of one and of three tokens, by and to every account.            *)
(***************************************************************************)
NextToken ==
    \/ \E s \in Users, to \in Addr, amount \in TokenAmounts : Mint(s, to, amount)
    \/ \E s \in Users, to \in Addr, amount \in TokenAmounts : Transfer(s, to, amount)
    \/ \E s \in Users, amount \in TokenAmounts : LockTokens(s, amount)
    \/ \E s \in Users, amount \in TokenAmounts : UnlockTokens(s, amount)

SpecToken == Init /\ [][NextToken]_vars

(***************************************************************************)
(* ReputationSystem alone: recordVote as its owner calls it, with every    *)
(* sequence of up to MaxOutcomes outcomes for one account.                 *)
(***************************************************************************)
RepSubjects == {"alice"}

RecordVote(sender, user, votedWithMajority) ==
    /\ recordVoteError(sender) = "ok"
    /\ reputations[user].totalVotes < MaxOutcomes
    /\ reputations' = [reputations EXCEPT ![user] = recordVote(@, votedWithMajority)]
    /\ last' = Call("recordVote", sender, user, 0, 0, votedWithMajority)
    /\ UNCHANGED <<balances, totalSupply, lockedTokens, proposals, proposalCount,
                   now, tally, ui>>

NextRep ==
    \E sender \in Addr, user \in RepSubjects, votedWithMajority \in BOOLEAN :
        RecordVote(sender, user, votedWithMajority)

SpecRep == Init /\ [][NextRep]_vars

(***************************************************************************)
(* Voting by accounts that hold reputation.  recordVote is the only writer *)
(* of a reputation record; RepAfter(k) is the record after k outcomes with *)
(* the majority in a row (earned on earlier proposals, or recorded by the  *)
(* deployer while it still owned the ReputationSystem).  The token         *)
(* operations kept are those a vote needs.                                 *)
(***************************************************************************)
RECURSIVE RepAfter(_)
RepAfter(k) == IF k = 0 THEN ZeroReputation ELSE recordVote(RepAfter(k - 1), TRUE)

StreakInputs == {0, 9, 13}

InitPower ==
    /\ balances = [a \in Addr |-> IF a = Deployer THEN INITIAL_SUPPLY ELSE 0]
    /\ totalSupply = INITIAL_SUPPLY
    /\ lockedTokens = [a \in Addr |-> 0]
    /\ \E k \in StreakInputs :
          reputations = [a \in Addr |-> IF a \in Users THEN RepAfter(k)
                                       ELSE ZeroReputation]
    /\ proposals = [i \in 0..MaxProposals |-> ZeroProposal]
    /\ proposalCount = 0
    /\ now = 0
    /\ last = NoCall
    /\ tally = [approveVotes |-> 0, rejectVotes |-> 0, supply |-> 0, status |-> "none"]
    /\ ui = UiStart

NextPower ==
    \/ \E s \in Users, to \in Addr, amount \in Amounts : Transfer(s, to, amount)
    \/ \E s \in Users, t \in TypeInputs : CreateProposal(s, t)
    \/ \E s \in Users, pid \in 0..MaxProposals, approve \in BOOLEAN,
          n \in 0..MaxVoteCount : Vote(s, pid, approve, n)
    \/ \E pid \in 0..MaxProposals : ExecuteProposal(pid)
    \/ AdvanceTime

SpecPower == InitPower /\ [][NextPower]_vars

(***************************************************************************)
(* The system with numbers at the edge of the integer width: vote counts   *)
(* whose cost fits, overflows, and wraps to 0, and mint amounts whose sum  *)
(* with the supply fits and overflows.                                     *)
(***************************************************************************)
WidthVoteCounts == {1, 2, 20, 21, 64}
WidthMintAmounts == {UNIT, MAX_UINT - MAX_SUPPLY, MAX_UINT}

NextWidth ==
    \/ \E s \in Users, to \in MintTargets, amount \in WidthMintAmounts :
          Mint(s, to, amount)
    \/ \E s \in Users, to \in Addr, amount \in Amounts : Transfer(s, to, amount)
    \/ \E s \in Users, t \in TypeInputs : CreateProposal(s, t)
    \/ \E s \in Users, pid \in 0..MaxProposals, approve \in BOOLEAN,
          n \in WidthVoteCounts : Vote(s, pid, approve, n)
    \/ \E pid \in 0..MaxProposals : ExecuteProposal(pid)
    \/ AdvanceTime

SpecWidth == Init /\ [][NextWidth]_vars

(***************************************************************************)
(* The system with time that keeps passing: block.timestamp grows while a  *)
(* deadline lies ahead, and a call of executeProposal that can go through  *)
(* is eventually made.                                                     *)
(***************************************************************************)
TimePasses ==
    /\ \/ now < MaxTime
       \/ \E pid \in 1..MaxProposals : /\ validProposalId(pid)
                                        /\ proposals[pid].status = "Active"
                                        /\ now < proposals[pid].votingDeadline
    /\ now' = now + 1
    /\ last' = Call("time", ZeroAddress, ZeroAddress, 0, 0, FALSE)
    /\ UNCHANGED <<balances, totalSupply, lockedTokens, reputations, proposals,
                   proposalCount, tally, ui>>

\* The deployment after the deployer has handed out tokens: UNIT to the
\* other account and 2 * UNIT to the address of the DAO contract.
InitFair ==
    /\ balances = [a \in Addr |-> IF a = Deployer THEN INITIAL_SUPPLY - 3 * UNIT
                                  ELSE IF a = DAO THEN 2 * UNIT ELSE UNIT]
    /\ totalSupply = INITIAL_SUPPLY
    /\ lockedTokens = [a \in Addr |-> 0]
    /\ reputations = [a \in Addr |-> ZeroReputation]
    /\ proposals = [i \in 0..MaxProposals |-> ZeroProposal]
    /\ proposalCount = 0
    /\ now = 0
    /\ last = NoCall
    /\ tally = [approveVotes |-> 0, rejectVotes |-> 0, supply |-> 0, status |-> "none"]
    /\ ui = UiStart

NextFair ==
    \/ \E s \in Users, t \in TypeInputs : CreateProposal(s, t)
    \/ \E s \in Users, pid \in 0..MaxProposals, approve \in BOOLEAN,
          n \in 0..MaxVoteCount : Vote(s, pid, approve, n)
    \/ \E pid \in 0..MaxProposals : ExecuteProposal(pid)
    \/ TimePasses

SpecFair ==
    /\ InitFair
    /\ [][NextFair]_vars
    /\ WF_vars(TimePasses)
    /\ \A pid \in 1..MaxProposals : WF_vars(ExecuteProposal(pid))

(***************************************************************************)
(* Several proposals open at once, voted on by accounts whose reputations  *)
(* differ: the tokens are handed out as in InitFair, and there is one      *)
(* proposal more than in Spec.                                             *)
(***************************************************************************)
OrderProposals == MaxProposals + 1

\* The streaks of the deployer and of the other account.
OrderStreaks == {<<0, 13>>, <<13, 9>>}

InitOrder ==
    /\ balances = [a \in Addr |-> IF a = Deployer THEN INITIAL_SUPPLY - 3 * UNIT
                                  ELSE IF a = DAO THEN 2 * UNIT ELSE UNIT]
    /\ totalSupply = INITIAL_SUPPLY
    /\ lockedTokens = [a \in Addr |-> 0]
    /\ \E k \in OrderStreaks :
          reputations = [a \in Addr |-> IF a = Deployer THEN RepAfter(k[1])
                                       ELSE IF a = DAO THEN ZeroReputation
                                       ELSE RepAfter(k[2])]
    /\ proposals = [i \in 0..OrderProposals |-> ZeroProposal]
    /\ proposalCount = 0
    /\ now = 0
    /\ last = NoCall
    /\ tally = [approveVotes |-> 0, rejectVotes |-> 0, supply |-> 0, status |-> "none"]
    /\ ui = UiStart

NextOrder ==
    \/ \E s \in Users, t \in TypeInputs : CreateProposalBelow(OrderProposals, s, t)
    \/ \E s \in Users, pid \in 0..OrderProposals, approve \in BOOLEAN,
          n \in 0..MaxVoteCount : Vote(s, pid, approve, n)
    \/ \E pid \in 0..OrderProposals : ExecuteProposal(pid)
    \/ AdvanceTime

SpecOrder == InitOrder /\ [][NextOrder]_vars

(***************************************************************************)
(* Helpers of the properties                                               *)
(***************************************************************************)
ProposalIds == 1..MaxProposals

NoDuplicates(seq) == \A i, j \in 1..Len(seq) : seq[i] = seq[j] => i = j

InSeq(x, seq) == \E i \in 1..Len(seq) : seq[i] = x

\* The sum of tokensCost over the VoteRecords of account a on the proposals
\* 1..pid that are not yet resolved.
RECURSIVE OpenVoteCost(_, _)
OpenVoteCost(a, pid) ==
    IF pid = 0 THEN 0
    ELSE (IF pid <= proposalCount /\ ~proposals[pid].executed
             /\ proposals[pid].votes[a].hasVoted
          THEN proposals[pid].votes[a].tokensCost ELSE 0)
         + OpenVoteCost(a, pid - 1)

QuorumRequired(supply) == (supply * QUORUM_PERCENTAGE) \div 100

\* The sum of f[a] over the accounts a of S.
RECURSIVE SumOver(_, _)
SumOver(f, S) ==
    IF S = {} THEN 0
    ELSE LET a == CHOOSE x \in S : TRUE IN f[a] + SumOver(f, S \ {a})

\* The sum of tokensCost over the VoteRecords of proposal p.
VoteCostSum(p) == SumOver([a \in Addr |-> p.votes[a].tokensCost], Addr)

(***************************************************************************)
(* C1.  Original claim: every (proposal, account) pair has at most one     *)
(* VoteRecord, and a vote by an account that already has a VoteRecord on   *)
(* that proposal always fails with AlreadyVoted ("Already voted").         *)
(***************************************************************************)
C1_SecondVoteAlwaysAlreadyVoted ==
    \A pid \in ProposalIds, s \in Users, n \in 0..MaxVoteCount :
        (pid <= proposalCount /\ proposals[pid].votes[s].hasVoted)
            => voteError(s, pid, n) = "Already voted"

(***************************************************************************)
(* C1 as amended: every account appears at most once in a proposal's       *)
(* voter list and has a VoteRecord exactly when it is in the list; a vote  *)
(* by an account that already has a VoteRecord always reverts, with        *)
(* "Already voted" while the proposal is Active and before its deadline,   *)
(* and with "Proposal not active" or "Voting period ended" (the requires   *)
(* that come first) otherwise.                                             *)
(***************************************************************************)
C1_OneVotePerAccount ==
    \A pid \in ProposalIds :
        /\ NoDuplicates(proposals[pid].voters)
        /\ \A a \in Addr :
              proposals[pid].votes[a].hasVoted <=> InSeq(a, proposals[pid].voters)
        /\ \A s \in Users, n \in 0..MaxVoteCount :
              (pid <= proposalCount /\ proposals[pid].votes[s].hasVoted) =>
                  /\ voteError(s, pid, n) \in
                        {"Proposal not active", "Voting period ended", "Already voted"}
                  /\ (proposals[pid].status = "Active"
                        /\ now < proposals[pid].votingDeadline)
                       => voteError(s, pid, n) = "Already voted"

\* An account has voted on a proposal that is still open for voting.
C1_Witness ==
    \E pid \in ProposalIds, s \in Users :
        /\ pid <= proposalCount
        /\ proposals[pid].votes[s].hasVoted
        /\ proposals[pid].status = "Active"
        /\ now < proposals[pid].votingDeadline
        /\ voteError(s, pid, 1) = "Already voted"

(***************************************************************************)
(* C2.  Tokens committed to an open vote cannot be spent: in every state   *)
(* and for every account a, lockedTokens[a] is at least the sum of         *)
(* tokensCost over a's VoteRecords on proposals that are not yet resolved. *)
(***************************************************************************)
C2_LockedCoversOpenVotes ==
    \A a \in Users : lockedTokens[a] >= OpenVoteCost(a, MaxProposals)

(***************************************************************************)
(* C3.  Every successful vote with voteCount n increases the locked amount *)
(* of the voter by n * n * UNIT, so decreases its available balance by the *)
(* same amount, and changes the locked amount of no other account.         *)
(***************************************************************************)
C3_VoteLocksVoterCost ==
    [][last'.op = "vote" =>
          /\ lockedTokens'[last'.sender] =
                lockedTokens[last'.sender] + last'.amount * last'.amount * UNIT
          /\ availableBalance(balances', lockedTokens', last'.sender) =
                availableBalance(balances, lockedTokens, last'.sender)
                    - last'.amount * last'.amount * UNIT
          /\ \A a \in Addr \ {last'.sender} : lockedTokens'[a] = lockedTokens[a]
      ]_vars

(***************************************************************************)
(* C4.  lockedTokens[a] <= balances[a] for every account in every          *)
(* reachable state, and the vote costs an account has committed on open    *)
(* proposals together never exceed its balance.                            *)
(***************************************************************************)
C4_LockedWithinBalance ==
    /\ \A a \in Addr : lockedTokens[a] <= balances[a]
    /\ \A a \in Users : OpenVoteCost(a, MaxProposals) <= balances[a]

(***************************************************************************)
(* C5.  When executeProposal resolves a proposal, the locked amount of     *)
(* each of its voters decreases by exactly that voter's tokensCost.        *)
(***************************************************************************)
C5_ExecuteUnlocksVoters ==
    [][last'.op = "executeProposal" =>
          \A a \in Addr :
              proposals[last'.pid].votes[a].hasVoted =>
                  lockedTokens'[a] =
                      lockedTokens[a] - proposals[last'.pid].votes[a].tokensCost
      ]_vars

(***************************************************************************)
(* C6.  executeProposal on a proposal that has already been resolved       *)
(* always fails with AlreadyExecuted ("Proposal already executed").        *)
(***************************************************************************)
C6_SecondExecuteAlreadyExecuted ==
    \A pid \in ProposalIds :
        (pid <= proposalCount /\ proposals[pid].executed)
            => executeError(pid) = "Proposal already executed"

(***************************************************************************)
(* C7.  The status of a proposal changes only from Active to Executed,     *)
(* Rejected or Expired, and executeProposal leaves the proposal it         *)
(* resolves in one of these three: once terminal, no step changes the      *)
(* status again.                                                           *)
(***************************************************************************)
C7_StatusTerminalIsFinal ==
    [][/\ \A pid \in 0..MaxProposals :
             proposals'[pid].status # proposals[pid].status =>
                 /\ proposals[pid].status = "Active"
                 /\ proposals'[pid].status \in Terminal
       /\ last'.op = "executeProposal" =>
             proposals'[last'.pid].status \in Terminal
      ]_vars

\* A proposal is terminal and a later call (a transfer) has gone through.
C7_Witness ==
    \E pid \in ProposalIds :
        /\ pid <= proposalCount
        /\ proposals[pid].status \in Terminal
        /\ last.op = "transfer"

(***************************************************************************)
(* C8.  The status a successful executeProposal assigns: with totalWeight  *)
(* = forWeight + againstWeight and quorumRequired = floor(totalSupply *    *)
(* QUORUM_PERCENTAGE / 100), Expired if totalWeight < quorumRequired,      *)
(* otherwise Executed if floor(forWeight * 100 / totalWeight) >=           *)
(* APPROVAL_THRESHOLD and Rejected if not.                                 *)
(***************************************************************************)
C8_StatusRule ==
    (tally.status \notin {"none", "Panic"}) =>
        LET totalWeight == tally.approveVotes + tally.rejectVotes IN
        IF totalWeight < QuorumRequired(tally.supply)
        THEN tally.status = "Expired"
        ELSE IF (tally.approveVotes * 100) \div totalWeight >= APPROVAL_THRESHOLD
             THEN tally.status = "Executed"
             ELSE tally.status = "Rejected"

\* The rule has resolved a proposal that met the quorum to Rejected.
C8_Witness ==
    /\ tally.status = "Rejected"
    /\ tally.approveVotes > 0
    /\ tally.approveVotes + tally.rejectVotes >= QuorumRequired(tally.supply)

(***************************************************************************)
(* C9.  executeProposal on a proposal whose forWeight equals its           *)
(* againstWeight, both positive, sets its status to Executed.              *)
(***************************************************************************)
C9_TieIsExecuted ==
    (/\ last.op = "executeProposal"
     /\ proposals[last.pid].approveVotes = proposals[last.pid].rejectVotes
     /\ proposals[last.pid].approveVotes > 0)
        => proposals[last.pid].status = "Executed"

(***************************************************************************)
(* C10.  executeProposal after the deadline on an Active proposal with no  *)
(* votes, or with a total weight below the quorum, goes through (it does   *)
(* not revert), and the status it sets is Expired whatever the split.      *)
(***************************************************************************)
C10_BelowQuorumExpires ==
    /\ \A pid \in ProposalIds :
          (/\ pid <= proposalCount
           /\ proposals[pid].status = "Active"
           /\ now >= proposals[pid].votingDeadline
           /\ \/ Len(proposals[pid].voters) = 0
              \/ proposals[pid].approveVotes + proposals[pid].rejectVotes
                    < QuorumRequired(totalSupply))
              => executeError(pid) = "ok"
    /\ (/\ last.op = "executeProposal"
        /\ \/ Len(proposals[last.pid].voters) = 0
           \/ proposals[last.pid].approveVotes + proposals[last.pid].rejectVotes
                 < QuorumRequired(totalSupply))
          => proposals[last.pid].status = "Expired"

\* A proposal with votes on both sides, below the quorum, has been executed.
C10_Witness ==
    /\ last.op = "executeProposal"
    /\ proposals[last.pid].approveVotes > 0
    /\ proposals[last.pid].rejectVotes > 0
    /\ proposals[last.pid].approveVotes + proposals[last.pid].rejectVotes
          < QuorumRequired(totalSupply)
    /\ proposals[last.pid].status = "Expired"

(***************************************************************************)
(* C11.  The statuses Executed and Rejected are reachable under the        *)
(* deployed configuration: a proposal on which every account has cast      *)
(* approve votes resolves to Executed, and a proposal whose againstWeight   *)
(* is heavier than a positive forWeight resolves to Rejected.              *)
(***************************************************************************)
C11_VotedProposalsResolve ==
    /\ (/\ last.op = "executeProposal"
        /\ \A a \in Users : /\ proposals[last.pid].votes[a].hasVoted
                            /\ proposals[last.pid].votes[a].approve)
          => proposals[last.pid].status = "Executed"
    /\ (/\ last.op = "executeProposal"
        /\ proposals[last.pid].approveVotes > 0
        /\ proposals[last.pid].rejectVotes > proposals[last.pid].approveVotes)
          => proposals[last.pid].status = "Rejected"

(***************************************************************************)
(* C12.  Original claim: when executeProposal resolves a proposal to       *)
(* Expired, every account's locked amount and every reputation record are  *)
(* the same after the call as before it.                                   *)
(***************************************************************************)
C12_ExpiredChangesNothing ==
    [][(/\ last'.op = "executeProposal"
        /\ proposals'[last'.pid].status = "Expired")
          => /\ lockedTokens' = lockedTokens
             /\ reputations' = reputations
      ]_vars

(***************************************************************************)
(* C12 as amended: when executeProposal resolves a proposal to Expired it   *)
(* runs the same pass over the VoteRecords as on the other outcomes: the   *)
(* locked total of the ledger drops by the sum of their tokensCost, every  *)
(* voter gets one reputation outcome recorded, counted as a majority vote  *)
(* exactly when its side equals (forWeight > againstWeight), and the       *)
(* reputation record of every other account is unchanged.                  *)
(***************************************************************************)
C12_ExpiredUnlocksAndRecords ==
    [][(/\ last'.op = "executeProposal"
        /\ proposals'[last'.pid].status = "Expired")
          => LET p == proposals[last'.pid] IN
             /\ SumOver(lockedTokens', Addr)
                   = SumOver(lockedTokens, Addr) - VoteCostSum(p)
             /\ \A a \in Addr :
                   IF p.votes[a].hasVoted
                   THEN /\ reputations'[a].totalVotes = reputations[a].totalVotes + 1
                        /\ reputations'[a].majorityVotes = reputations[a].majorityVotes
                              + (IF p.votes[a].approve = (p.approveVotes > p.rejectVotes)
                                 THEN 1 ELSE 0)
                   ELSE reputations'[a] = reputations[a]
      ]_vars

\* A proposal with a vote on each side has been resolved to Expired.
C12_Witness ==
    /\ last.op = "executeProposal"
    /\ proposals[last.pid].status = "Expired"
    /\ Len(proposals[last.pid].voters) = 2
    /\ proposals[last.pid].approveVotes > proposals[last.pid].rejectVotes
    /\ proposals[last.pid].rejectVotes > 0

(***************************************************************************)
(* C13.  A vote on an Active proposal at a time now >= votingDeadline       *)
(* reverts with "Voting period ended", whoever votes and with whatever     *)
(* count; every vote that goes through is stored at a time strictly before *)
(* the deadline of its proposal.                                           *)
(***************************************************************************)
C13_NoVoteAfterDeadline ==
    /\ \A pid \in ProposalIds, s \in Users, n \in 0..MaxVoteCount :
          (/\ pid <= proposalCount
           /\ proposals[pid].status = "Active"
           /\ now >= proposals[pid].votingDeadline)
              => voteError(s, pid, n) = "Voting period ended"
    /\ last.op = "vote" => now < proposals[last.pid].votingDeadline

\* The deadline of an Active proposal with a vote has passed, and an account
\* that has not voted and holds the cost is refused.
C13_Witness ==
    \E pid \in ProposalIds, s \in Users :
        /\ pid <= proposalCount
        /\ proposals[pid].status = "Active"
        /\ now >= proposals[pid].votingDeadline
        /\ Len(proposals[pid].voters) > 0
        /\ ~proposals[pid].votes[s].hasVoted
        /\ balances[s] >= UNIT
        /\ voteError(s, pid, 1) = "Voting period ended"

(***************************************************************************)
(* C14.  executeProposal on an Active proposal at a time now <              *)
(* votingDeadline reverts with "Voting period not ended", however many     *)
(* votes the proposal has; a resolved proposal has its deadline behind it. *)
(***************************************************************************)
C14_NoExecuteBeforeDeadline ==
    \A pid \in ProposalIds :
        /\ (/\ pid <= proposalCount
            /\ proposals[pid].status = "Active"
            /\ now < proposals[pid].votingDeadline)
              => executeError(pid) = "Voting period not ended"
        /\ (pid <= proposalCount
               /\ (proposals[pid].executed \/ proposals[pid].status \in Terminal))
              => now >= proposals[pid].votingDeadline

\* An Active proposal on which every account has voted, before its deadline.
C14_Witness ==
    \E pid \in ProposalIds :
        /\ pid <= proposalCount
        /\ proposals[pid].status = "Active"
        /\ now < proposals[pid].votingDeadline
        /\ Len(proposals[pid].voters) = 2
        /\ executeError(pid) = "Voting period not ended"

C16_SequentialIds ==
    [][/\ last'.op = "createProposal" =>
             /\ proposalCount' = proposalCount + 1
             /\ last'.pid = proposalCount + 1
             /\ proposals'[last'.pid].proposer = last'.sender
             /\ \A i \in 0..MaxIds :
                   i # last'.pid => proposals'[i] = proposals[i]
       /\ last'.op # "createProposal" =>
             /\ proposalCount' = proposalCount
             /\ proposals' = proposals
       /\ \A i \in 0..MaxIds :
             proposals'[i].id = (IF 1 <= i /\ i <= proposalCount' THEN i ELSE 0)
      ]_vars

\* Three proposals exist and an account below the threshold is refused.
C16_Witness ==
    /\ proposalCount = 3
    /\ proposals[3].id = 3
    /\ proposals[1].proposer # proposals[2].proposer
    /\ \E s \in Users : createProposalError(s) # "ok"

(***************************************************************************)
(* C17.  Every proposal is created Active with createdAt = now and         *)
(* votingDeadline = createdAt + VOTING_PERIOD, and no later step (vote,    *)
(* executeProposal or any other) changes its createdAt or votingDeadline.  *)
(***************************************************************************)
C17_DeadlineFixed ==
    [][/\ last'.op = "createProposal" =>
             /\ proposals'[last'.pid].status = "Active"
             /\ ~proposals'[last'.pid].executed
             /\ proposals'[last'.pid].createdAt = now
             /\ proposals'[last'.pid].votingDeadline = now + VOTING_PERIOD
       /\ \A pid \in ProposalIds :
             pid <= proposalCount =>
                 /\ proposals'[pid].createdAt = proposals[pid].createdAt
                 /\ proposals'[pid].votingDeadline = proposals[pid].votingDeadline
       /\ \A pid \in ProposalIds :
             pid <= proposalCount' =>
                 proposals'[pid].votingDeadline
                     = proposals'[pid].createdAt + VOTING_PERIOD
      ]_vars

\* A proposal created after time 0 has received a vote.
C17_Witness ==
    \E pid \in ProposalIds :
        /\ pid <= proposalCount
        /\ proposals[pid].createdAt > 0
        /\ last.op = "vote"
        /\ last.pid = pid

(***************************************************************************)
(* C18.  calculateVoteCost(n) = n * n * UNIT for every n >= 1, and the     *)
(* tokensCost stored in the VoteRecord of a vote with voteCount n that     *)
(* goes through, which is the amount the vote locks in the ledger, is that *)
(* value.                                                                  *)
(***************************************************************************)
C18_QuadraticCost ==
    [][/\ \A n \in 1..MaxPreview : calculateVoteCost(n) = n * n * UNIT
       /\ last'.op = "vote" =>
             /\ proposals'[last'.pid].votes[last'.sender].tokensCost
                   = last'.amount * last'.amount * UNIT
             /\ proposals'[last'.pid].votes[last'.sender].voteCount = last'.amount
             /\ SumOver(lockedTokens', Addr)
                   = SumOver(lockedTokens, Addr) + last'.amount * last'.amount * UNIT
      ]_vars

\* A vote with more than one vote count has gone through.
C18_Witness ==
    /\ last.op = "vote"
    /\ last.amount > 1
    /\ proposals[last.pid].votes[last.sender].tokensCost > last.amount * UNIT

C20_VoteNeedsAvailable ==
    \A pid \in ProposalIds, s \in Users, n \in 1..MaxVoteCount :
        (/\ pid <= proposalCount
         /\ proposals[pid].status = "Active"
         /\ now < proposals[pid].votingDeadline
         /\ ~proposals[pid].votes[s].hasVoted
         /\ n * n * UNIT > balances[s] - lockedTokens[s])
            => voteError(s, pid, n) \in {"Insufficient tokens for vote cost",
                                         "Insufficient unlocked balance"}

(***************************************************************************)
(* C21.  Every public operation is all-or-nothing.  A call that fails is   *)
(* rolled back whole, so the state changes only by calls that pass every   *)
(* check of the function and of the calls it makes (the lockTokens inside  *)
(* vote, the unlockTokens of every voter inside executeProposal), and such *)
(* a call leaves all its effects: no step records a vote without its lock, *)
(* or resolves a proposal without unlocking the cost of all its votes.     *)
(***************************************************************************)
C21_AllOrNothing ==
    [][LET s == last'.sender
           pid == last'.pid
           n == last'.amount
           p == proposals[pid]
       IN
       /\ last'.op = "createProposal" =>
             /\ balances[s] >= PROPOSAL_THRESHOLD
             /\ proposalCount' = proposalCount + 1
             /\ proposals'[pid].proposer = s
       /\ last'.op = "vote" =>
             /\ 1 <= pid /\ pid <= proposalCount
             /\ p.status = "Active"
             /\ now < p.votingDeadline
             /\ ~p.votes[s].hasVoted
             /\ n > 0
             /\ balances[s] >= n * n * UNIT
             /\ balances[DAO] - lockedTokens[DAO] >= n * n * UNIT
             /\ SumOver(lockedTokens', Addr) = SumOver(lockedTokens, Addr) + n * n * UNIT
             /\ proposals'[pid].votes[s].hasVoted
             /\ proposals'[pid].voters = Append(p.voters, s)
       /\ last'.op = "executeProposal" =>
             /\ 1 <= pid /\ pid <= proposalCount
             /\ p.status = "Active"
             /\ now >= p.votingDeadline
             /\ SumOver(lockedTokens, Addr) >= VoteCostSum(p)
             /\ SumOver(lockedTokens', Addr) = SumOver(lockedTokens, Addr) - VoteCostSum(p)
             /\ proposals'[pid].executed
             /\ proposals'[pid].status \in Terminal
             /\ \A a \in Addr :
                   reputations'[a].totalVotes = reputations[a].totalVotes
                       + (IF p.votes[a].hasVoted THEN 1 ELSE 0)
       /\ last'.op = "mint" =>
             /\ s = Deployer
             /\ totalSupply + n <= MAX_SUPPLY
             /\ totalSupply' = totalSupply + n
       /\ last'.op = "lockTokens" =>
             /\ balances[s] - lockedTokens[s] >= n
             /\ lockedTokens'[s] = lockedTokens[s] + n
       /\ last'.op = "unlockTokens" =>
             /\ lockedTokens[s] >= n
             /\ lockedTokens'[s] = lockedTokens[s] - n
       /\ last'.op = "transfer" =>
             /\ balances[s] - lockedTokens[s] >= n
             /\ SumOver(balances', Addr) = SumOver(balances, Addr)
       /\ last'.op \in {"createProposal", "vote", "executeProposal", "mint",
                        "lockTokens", "unlockTokens", "transfer"}
             \/ chain' = chain
      ]_vars

\* A vote of an account that holds the cost would fail in the lockTokens call
\* the DAO makes, after an earlier vote has gone through.
C21_Witness ==
    \E pid \in ProposalIds, s \in Users :
        /\ Len(proposals[pid].voters) > 0
        /\ balances[s] >= 4 * UNIT
        /\ voteError(s, pid, 2) = "Insufficient unlocked balance"

(***************************************************************************)
(* C22.  transfer of an amount above balance - locked of the sender        *)
(* reverts with "Cannot transfer locked tokens", so the full balance       *)
(* cannot be transferred while any of it is locked; a transfer that goes   *)
(* through moves exactly the amount from the sender's balance to the       *)
(* receiver's and changes no locked amount and not the total supply.       *)
(***************************************************************************)
C22_TransferAvailableOnly ==
    [][/\ \A s \in Users :
             \A a \in TokenAmounts \cup {balances'[s]} :
                 a > balances'[s] - lockedTokens'[s] =>
                     transferError(balances', lockedTokens', s, a)
                         = "Cannot transfer locked tokens"
       /\ last'.op = "transfer" =>
             /\ last'.amount <= balances[last'.sender] - lockedTokens[last'.sender]
             /\ \A a \in Addr :
                   balances'[a] = balances[a]
                       - (IF a = last'.sender THEN last'.amount ELSE 0)
                       + (IF a = last'.to THEN last'.amount ELSE 0)
             /\ lockedTokens' = lockedTokens
             /\ totalSupply' = totalSupply
      ]_vars

\* An account with locked tokens has transferred a part of its balance and is
\* refused the transfer of the rest.
C22_Witness ==
    /\ last.op = "transfer"
    /\ last.to # last.sender
    /\ lockedTokens[last.sender] > 0
    /\ balances[last.sender] > lockedTokens[last.sender]
    /\ transferError(balances, lockedTokens, last.sender, balances[last.sender])
          = "Cannot transfer locked tokens"

(***************************************************************************)
(* C23.  totalSupply <= MAX_SUPPLY in every reachable state, and it is the *)
(* sum of the balances: mint by the owner reverts with "Exceeds max        *)
(* supply" when totalSupply + amount > MAX_SUPPLY, and otherwise increases *)
(* the balance of the receiver and totalSupply by exactly the amount.      *)
(***************************************************************************)
C23_SupplyCap ==
    [][/\ totalSupply' <= MAX_SUPPLY
       /\ SumOver(balances', Addr) = totalSupply'
       /\ \A a \in TokenAmounts :
             mintError(tokenOwner, a) =
                 (IF totalSupply + a > MAX_SUPPLY THEN "Exceeds max supply" ELSE "ok")
       /\ last'.op = "mint" =>
             /\ totalSupply + last'.amount <= MAX_SUPPLY
             /\ totalSupply' = totalSupply + last'.amount
             /\ balances' = [balances EXCEPT ![last'.to] = @ + last'.amount]
             /\ lockedTokens' = lockedTokens
      ]_vars

\* The supply has been minted up to the cap and a further mint is refused.
C23_Witness ==
    /\ last.op = "mint"
    /\ totalSupply = MAX_SUPPLY
    /\ mintError(tokenOwner, UNIT) = "Exceeds max supply"

(***************************************************************************)
(* C24.  For every score in 0..1000 the voting multiplier is               *)
(* 100 + floor(score * 100 / 1000): it is non-decreasing in the score,     *)
(* within 100..200, 100 at score 0 (the record of an account that never    *)
(* voted) and 200 at score 1000; every reachable score is in 0..1000.      *)
(***************************************************************************)
C24_MultiplierFormula ==
    /\ \A sc \in 0..1000 :
          /\ getVotingMultiplier(sc) = 100 + (sc * 100) \div 1000
          /\ getVotingMultiplier(sc) >= 100
          /\ getVotingMultiplier(sc) <= 200
          /\ sc < 1000 => getVotingMultiplier(sc) <= getVotingMultiplier(sc + 1)
    /\ getVotingMultiplier(0) = 100
    /\ getVotingMultiplier(1000) = 200
    /\ \A a \in Addr :
          /\ reputations[a].score \in 0..1000
          /\ reputations[a].totalVotes = 0 => reputations[a].score = 0

\* An account has reached a score strictly between the ends of the range.
C24_Witness ==
    \E a \in RepSubjects :
        /\ reputations[a].score = 535
        /\ getVotingMultiplier(reputations[a].score) = 153

(***************************************************************************)
(* C25.  recordVote(user, true) increases totalVotes, majorityVotes and    *)
(* consecutiveCorrect of the user by one each and sets the score to        *)
(* min(1000, score + 10 + 10 * c), c the streak after its increment; it    *)
(* changes no other record, and no score ever exceeds 1000.                *)
(***************************************************************************)
C25_MajorityOutcome ==
    [][/\ (last'.op = "recordVote" /\ last'.flag) =>
             LET old == reputations[last'.to]
                 new == reputations'[last'.to]
                 c == old.consecutiveCorrect + 1
                 raised == old.score + 10 + 10 * c
             IN  /\ new.totalVotes = old.totalVotes + 1
                 /\ new.majorityVotes = old.majorityVotes + 1
                 /\ new.consecutiveCorrect = c
                 /\ new.score = (IF raised > 1000 THEN 1000 ELSE raised)
                 /\ \A a \in Addr \ {last'.to} : reputations'[a] = reputations[a]
       /\ \A a \in Addr : reputations'[a].score <= 1000
      ]_vars

\* The thirteenth outcome with the majority in a row has hit the cap.
C25_Witness ==
    /\ last.op = "recordVote"
    /\ last.flag
    /\ reputations[last.to].consecutiveCorrect = 13
    /\ reputations[last.to].score = 1000

(***************************************************************************)
(* C26.  recordVote(user, false) increases totalVotes by one, leaves       *)
(* majorityVotes unchanged, resets consecutiveCorrect to 0 and sets the    *)
(* score to max(0, score - 5): it decreases a positive score and leaves a  *)
(* score below 5 at 0.                                                     *)
(***************************************************************************)
C26_MinorityOutcome ==
    [][/\ (last'.op = "recordVote" /\ ~last'.flag) =>
             LET old == reputations[last'.to]
                 new == reputations'[last'.to]
             IN  /\ new.totalVotes = old.totalVotes + 1
                 /\ new.majorityVotes = old.majorityVotes
                 /\ new.consecutiveCorrect = 0
                 /\ new.score = (IF old.score - 5 > 0 THEN old.score - 5 ELSE 0)
                 /\ old.score > 0 => new.score < old.score
                 /\ \A a \in Addr \ {last'.to} : reputations'[a] = reputations[a]
       /\ \A sc \in 0..12 :
             recordVote([ZeroReputation EXCEPT !.score = sc], FALSE).score
                 = (IF sc - 5 > 0 THEN sc - 5 ELSE 0)
      ]_vars

\* An outcome against the majority has ended a streak and lowered a score; an
\* earlier one found the score at 0.
C26_Witness ==
    /\ last.op = "recordVote"
    /\ ~last.flag
    /\ reputations[last.to].score = 45
    /\ reputations[last.to].consecutiveCorrect = 0
    /\ reputations[last.to].totalVotes = 4
    /\ reputations[last.to].majorityVotes = 2

C28_ResolvedRecordImmutable ==
    [][/\ \A pid \in 0..MaxProposals :
             (proposals[pid].executed \/ proposals[pid].status \in Terminal)
                => proposals'[pid] = proposals[pid]
       /\ \A pid \in ProposalIds, s \in Addr, n \in 0..MaxVoteCount :
             proposals'[pid].status \in Terminal
                => voteError(s, pid, n)' = "Proposal not active"
      ]_vars

\* A resolved proposal keeps its two VoteRecords while tokens are locked by a
\* later call.
C28_Witness ==
    \E pid \in ProposalIds :
        /\ proposals[pid].executed
        /\ Len(proposals[pid].voters) = 2
        /\ last.op = "lockTokens"

C30_NoWrap ==
    /\ \A s \in Users, pid \in ProposalIds, n \in WidthVoteCounts :
          (/\ validProposalId(pid)
           /\ proposals[pid].status = "Active"
           /\ now < proposals[pid].votingDeadline
           /\ ~proposals[pid].votes[s].hasVoted)
             => ((voteError(s, pid, n) = "Panic") <=> (n * n * UNIT > MAX_UINT))
    /\ \A amount \in WidthMintAmounts :
          (mintError(tokenOwner, amount) = "Panic") <=> (totalSupply + amount > MAX_UINT)
    /\ \A pid \in ProposalIds :
          /\ \A a \in Addr :
                proposals[pid].votes[a].tokensCost
                   = proposals[pid].votes[a].voteCount
                        * proposals[pid].votes[a].voteCount * UNIT
          /\ proposals[pid].approveVotes + proposals[pid].rejectVotes
                = SumOver([a \in Addr |-> proposals[pid].votes[a].weightedPower], Addr)
          /\ proposals[pid].approveVotes
                = SumOver([a \in Addr |-> IF proposals[pid].votes[a].approve
                                          THEN proposals[pid].votes[a].weightedPower
                                          ELSE 0], Addr)
    /\ totalSupply \in 0..MAX_UINT
    /\ SumOver(balances, Addr) = totalSupply
    /\ \A a \in Addr : /\ balances[a] \in 0..MAX_UINT
                       /\ lockedTokens[a] \in 0..MAX_UINT

\* After a vote has been stored, a vote whose cost wraps to 0 is refused with
\* a Panic on a proposal that is still open to its sender.
C30_Witness ==
    \E s \in Users, pid \in ProposalIds :
        /\ last.op = "vote"
        /\ Len(proposals[pid].voters) = 1
        /\ ~proposals[pid].votes[s].hasVoted
        /\ calculateVoteCost(64) = 0
        /\ voteError(s, pid, 64) = "Panic"

(***************************************************************************)
(* C33.  Every created proposal can be resolved and is: whenever a         *)
(* proposal is Active and now >= votingDeadline a call of executeProposal  *)
(* on it goes through (no require and no step of its loop fails), and,     *)
(* time passing and executeProposal being called fairly, every created     *)
(* proposal eventually has a terminal status.                              *)
(***************************************************************************)
C33_EventuallyResolved ==
    /\ [](\A pid \in ProposalIds :
            (/\ pid <= proposalCount
             /\ proposals[pid].status = "Active"
             /\ now >= proposals[pid].votingDeadline)
               => /\ executeError(pid) = "ok"
                  /\ lockedTokens[DAO] >= VoteCostSum(proposals[pid]))
    /\ \A pid \in ProposalIds :
          (pid <= proposalCount) ~> (proposals[pid].status \in Terminal)

\* A proposal created after time 0 has been resolved with its two voters.
C33_Witness ==
    /\ last.op = "executeProposal"
    /\ Len(proposals[last.pid].voters) = 2
    /\ proposals[last.pid].createdAt > 0
    /\ now >= proposals[last.pid].votingDeadline
    /\ proposals[last.pid].status \in Terminal

C35_ExecutedIffNotActive ==
    \A pid \in 0..MaxProposals :
        /\ proposals[pid].executed <=> (proposals[pid].status # "Active")
        /\ proposals[pid].status \in Terminal \cup {"Active"}
        /\ pid > proposalCount => ~proposals[pid].executed

\* A resolved proposal next to the call that resolved it.
C35_Witness ==
    /\ last.op = "executeProposal"
    /\ proposals[last.pid].executed
    /\ proposals[last.pid].status # "Active"
    /\ Len(proposals[last.pid].voters) = 0

(***************************************************************************)
(* C36.  For every proposal, approveVotes is the sum of weightedPower over *)
(* its VoteRecords with approve = true and rejectVotes the sum over those  *)
(* with approve = false; proposal.voters holds exactly the accounts with a *)
(* VoteRecord on it, each once, and every vote puts its sender at the end  *)
(* of the list, so that the list is in the order of the votes.             *)
(***************************************************************************)
C36_TalliesAndVoterList ==
    [][/\ \A pid \in 0..MaxProposals :
             LET p == proposals'[pid]
                 forPower == [a \in Addr |-> IF p.votes[a].hasVoted /\ p.votes[a].approve
                                             THEN p.votes[a].weightedPower ELSE 0]
                 againstPower == [a \in Addr |->
                                     IF p.votes[a].hasVoted /\ ~p.votes[a].approve
                                     THEN p.votes[a].weightedPower ELSE 0]
             IN  /\ p.approveVotes = SumOver(forPower, Addr)
                 /\ p.rejectVotes = SumOver(againstPower, Addr)
                 /\ \A a \in Addr : p.votes[a].hasVoted <=> InSeq(a, p.voters)
                 /\ NoDuplicates(p.voters)
       /\ last'.op = "vote" =>
             /\ proposals'[last'.pid].voters
                   = Append(proposals[last'.pid].voters, last'.sender)
             /\ \A pid \in 0..MaxProposals \ {last'.pid} :
                   proposals'[pid] = proposals[pid]
       /\ last'.op # "vote" =>
             \A pid \in 0..MaxProposals :
                 /\ pid <= proposalCount => proposals'[pid].voters = proposals[pid].voters
                 /\ pid <= proposalCount => proposals'[pid].votes = proposals[pid].votes
      ]_vars

\* Two accounts with the highest multiplier have voted on opposite sides, the
\* second account of the model first.
C36_Witness ==
    \E pid \in ProposalIds :
        /\ proposals[pid].voters = <<"alice", Deployer>>
        /\ proposals[pid].votes["alice"].approve
        /\ proposals[pid].approveVotes = 2
        /\ proposals[pid].rejectVotes = 2

(***************************************************************************)
(* C37.  Votes of distinct accounts can be cast in either order with the   *)
(* same result.  On one proposal: the two votes go through in one order    *)
(* exactly when they do in the other, they leave the same tallies and the  *)
(* same VoteRecords, and executeProposal then assigns the same status,     *)
(* the same locked amounts and the same reputation records.  On different  *)
(* proposals: both orders go through alike and leave the same proposals    *)
(* and the same locked amounts.                                            *)
(***************************************************************************)
C37_VoteOrderIndependent ==
    \A a \in {Deployer}, b \in Users, fa \in BOOLEAN, fb \in BOOLEAN,
       na \in 1..MaxVoteCount, nb \in 1..MaxVoteCount :
        a # b =>
          LET ca == calculateVoteCost(na)
              cb == calculateVoteCost(nb)
              lockedA == lockTokensEffect(lockedTokens, DAO, ca)
              lockedB == lockTokensEffect(lockedTokens, DAO, cb)
              lockedAB == lockTokensEffect(lockedA, DAO, cb)
              lockedBA == lockTokensEffect(lockedB, DAO, ca)
          IN
          \A pa \in 1..OrderProposals, pb \in 1..OrderProposals :
            LET okAB == /\ voteError(a, pa, na) = "ok"
                        /\ voteError(b, pb, nb) = "ok"
                        /\ lockTokensError(balances, lockedA, DAO, cb) = "ok"
                okBA == /\ voteError(b, pb, nb) = "ok"
                        /\ voteError(a, pa, na) = "ok"
                        /\ lockTokensError(balances, lockedB, DAO, ca) = "ok"
                prA == [proposals EXCEPT ![pa] = voteEffect(@, a, fa, na)]
                prAB == [prA EXCEPT ![pb] = voteEffect(@, b, fb, nb)]
                prB == [proposals EXCEPT ![pb] = voteEffect(@, b, fb, nb)]
                prBA == [prB EXCEPT ![pa] = voteEffect(@, a, fa, na)]
                runAB == executeLoop(prAB[pa], 1, lockedAB, reputations,
                            isMajorityApproved(prAB[pa].approveVotes,
                                               prAB[pa].rejectVotes))
                runBA == executeLoop(prBA[pa], 1, lockedBA, reputations,
                            isMajorityApproved(prBA[pa].approveVotes,
                                               prBA[pa].rejectVotes))
            IN  /\ okAB <=> okBA
                /\ okAB =>
                     /\ lockedAB = lockedBA
                     /\ \A pid \in 1..OrderProposals :
                           /\ prAB[pid].approveVotes = prBA[pid].approveVotes
                           /\ prAB[pid].rejectVotes = prBA[pid].rejectVotes
                           /\ prAB[pid].votes = prBA[pid].votes
                           /\ prAB[pid].status = prBA[pid].status
                     /\ pa # pb => prAB = prBA
                     /\ resolveStatus(prAB[pa].approveVotes, prAB[pa].rejectVotes,
                                      totalSupply)
                          = resolveStatus(prBA[pa].approveVotes, prBA[pa].rejectVotes,
                                          totalSupply)
                     /\ runAB.err = "ok"
                     /\ runAB = runBA

\* At a time after the creation of the contracts two accounts of different
\* reputation can both vote, in either order, on the same open proposal and
\* on two different ones.
C37_Witness ==
    /\ proposalCount = 2
    /\ now > 0
    /\ reputations[Deployer].score # reputations["alice"].score
    /\ voteError(Deployer, 2, 1) = "ok"
    /\ voteError("alice", 2, 1) = "ok"
    /\ voteError("alice", 1, 1) = "ok"
    /\ lockTokensError(balances, lockTokensEffect(lockedTokens, DAO, UNIT), DAO, UNIT) = "ok"

(***************************************************************************)
(* C39.  A record that has only outcomes with the majority, k of them      *)
(* since it was fresh, has the score min(1000, 5 * k * k + 15 * k): from   *)
(* k = 13 on the score is 1000 and the multiplier 200, and a further       *)
(* outcome with the majority changes neither.                              *)
(***************************************************************************)
C39_StreakClosedForm ==
    [][\A a \in Addr :
          LET old == reputations[a]
              new == reputations'[a]
              k == new.totalVotes
              closed == 5 * k * k + 15 * k
          IN  /\ (new.majorityVotes = k /\ new.consecutiveCorrect = k) =>
                    /\ new.score = (IF closed > 1000 THEN 1000 ELSE closed)
                    /\ k >= 13 => /\ new.score = 1000
                                  /\ getVotingMultiplier(new.score) = 200
                    /\ k < 13 => new.score < 1000
              /\ (old.score = 1000 /\ last'.op = "recordVote" /\ last'.flag
                  /\ last'.to = a) =>
                    /\ new.score = 1000
                    /\ getVotingMultiplier(new.score) = getVotingMultiplier(old.score)
      ]_vars

\* A fresh record has had fourteen outcomes with the majority in a row.
C39_Witness ==
    \E a \in RepSubjects :
        /\ reputations[a].totalVotes = 14
        /\ reputations[a].consecutiveCorrect = 14
        /\ reputations[a].score = 1000
        /\ last.flag

(***************************************************************************)
(* C40.  Locking reserves tokens and spends none: createProposal, vote,    *)
(* executeProposal, lockTokens and unlockTokens leave the balance of every *)
(* account and the total supply as they were, and in every reachable state *)
(* the balances add up to the total supply.                                *)
(***************************************************************************)
C40_LockIsReservation ==
    [][/\ last'.op \in {"createProposal", "vote", "executeProposal",
                        "lockTokens", "unlockTokens"}
             => /\ balances' = balances
                /\ totalSupply' = totalSupply
       /\ lockedTokens' # lockedTokens
             => /\ balances' = balances
                /\ totalSupply' = totalSupply
       /\ SumOver(balances', Addr) = totalSupply'
       /\ \A a \in Addr : balances'[a] >= 0
      ]_vars

\* A vote has locked the whole balance of the DAO address while an account
\* holds a lock of its own.
C40_Witness ==
    /\ last.op = "vote"
    /\ lockedTokens[DAO] = balances[DAO]
    /\ \E a \in Users : lockedTokens[a] > 0 /\ balances[a] >= lockedTokens[a]

(***************************************************************************)
(* SpecUi: the front-end store.  The user connects, opens and closes the   *)
(* voting modal, confirms votes, submits proposals and executes passed     *)
(* ones; the callbacks that are due fire in any order, because the time    *)
(* the wallet takes to sign is the user's.                                 *)
(***************************************************************************)
NextUi ==
    \/ WalletConnect
    \/ \E i \in 1..(Len(initialProposals) + MaxUiClicks) : SelectProposal(i)
    \/ CloseVoting
    \/ \E voteAmount \in UiVoteAmounts, support \in BOOLEAN :
           ConfirmVote(voteAmount, support)
    \/ \E c \in pendingOfKind("vote") : VoteCallback(c)
    \/ \E c \in pendingOfKind("reputation") : ReputationCallback(c)
    \/ SubmitProposal
    \/ \E c \in pendingOfKind("create") : CreateCallback(c)
    \/ \E i \in 1..(Len(initialProposals) + MaxUiClicks) : ConfirmExecute(i)
    \/ \E c \in pendingOfKind("execute") : ExecuteCallback(c)

SpecUi == Init /\ [][NextUi]_vars

(***************************************************************************)
(* C38.  Updates whose delayed callbacks overlap are both applied: no      *)
(* callback overwrites the list with a copy captured before the other      *)
(* update.  A create callback keeps every proposal of the list as it is,   *)
(* votes and status included, and a vote callback and an execute callback  *)
(* keep every proposal but the one they are for.                           *)
(***************************************************************************)
C38_OverlappingUpdatesBothApplied ==
    [][LET kept(except) ==
               \A i \in 1..Len(ui.proposals) :
                   ui.proposals[i].id # except
                       => \E j \in 1..Len(ui'.proposals) :
                              ui'.proposals[j] = ui.proposals[i]
       IN  \A c \in BagToSet(ui.pending) :
               /\ CreateCallback(c) => kept(0)
               /\ VoteCallback(c) => kept(c.proposalId)
               /\ ExecuteCallback(c) => kept(c.proposalId)
      ]_vars

(***************************************************************************)
(* C32.  Duplicate voting is prevented: no address appears more than once  *)
(* in the voters of a proposal, the token balance of the user is never     *)
(* negative, and it is lowered by the cost of a vote at most once for each *)
(* proposal.                                                               *)
(***************************************************************************)
C32_NoDuplicateVoting ==
    /\ \A i \in 1..Len(ui.proposals) :
          \A j, k \in 1..Len(ui.proposals[i].voters) :
              j # k => ui.proposals[i].voters[j].address
                          # ui.proposals[i].voters[k].address
    /\ ui.user.tokenBalance >= 0
    /\ \A id \in BagToSet(ui.charged) : CopiesIn(id, ui.charged) <= 1

(***************************************************************************)
(* C31.  A vote applied to an active proposal makes it passed exactly      *)
(* when, with the vote added, votesFor + votesAgainst >= 10 and            *)
(* votesFor / (votesFor + votesAgainst) > 0.5, and leaves it active        *)
(* otherwise; a proposal of the list becomes executed only from passed.    *)
(***************************************************************************)
C31_PassRuleAndExecutedOnlyFromPassed ==
    [][\A i \in 1..Len(ui.proposals), j \in 1..Len(ui'.proposals) :
          ui.proposals[i].id = ui'.proposals[j].id =>
              LET p == ui.proposals[i]
                  q == ui'.proposals[j]
              IN  /\ ( /\ p.status = "active"
                       /\ \E c \in pendingOfKind("vote") :
                              VoteCallback(c) /\ c.proposalId = p.id )
                        => q.status =
                             IF /\ q.votesFor + q.votesAgainst >= PASS_VOTES
                                /\ approvalAboveHalf(q.votesFor, q.votesAgainst)
                             THEN "passed" ELSE "active"
                  /\ (q.status = "executed" /\ p.status # "executed")
                        => p.status = "passed"
      ]_vars
====
